---------------------------- MODULE Spec2Model ----------------------------
(***************************************************************************)
(* A model of the zmodem2 crate (src/src/lib.rs): the escape codec, the    *)
(* CRC families, the header and subpacket codecs at the level of octets,   *)
(* and the send and receive session state machines, one action per turn.   *)
(***************************************************************************)
EXTENDS Integers, Sequences, FiniteSets, TLC

(***************************************************************************)
(* Sizes.  The crate's BUFFER_SIZE is 1024 and SUBPACKET_PER_ACK is 10;    *)
(* the model keeps the code's arithmetic on them (BUFFER_SIZE - 2 octets   *)
(* per file read, SUBPACKET_PER_ACK subpackets per burst, overflow when    *)
(* the buffer reaches BUFFER_SIZE) and scales the two numbers down so that *)
(* full buffers, full bursts and several bursts are reached by short files.*)
(***************************************************************************)
BUFFER_SIZE == 8

SUBPACKET_PER_ACK == 3

HEADER_SIZE == 32

FILE_NAME_CAPACITY == 256

Byte == 0..255

ZPAD == 42

ZDLE == 24

XON == 17

CR == 13

LF == 10

\* enum Encoding (repr u8)
ZBIN == 65

ZHEX == 66

ZBIN32 == 67

Encodings == {ZBIN, ZHEX, ZBIN32}

\* enum Frame (repr u8)
ZRQINIT == 0

ZRINIT == 1

ZSINIT == 2

ZACK == 3

ZFILE == 4

ZSKIP == 5

ZNAK == 6

ZABORT == 7

ZFIN == 8

ZRPOS == 9

ZDATA == 10

ZEOF == 11

ZFERR == 12

ZCRC == 13

ZCHALLENGE == 14

ZCOMPL == 15

ZCAN == 16

ZFREECNT == 17

ZCOMMAND == 18

ZSTDERR == 19

Frames == ZRQINIT..ZSTDERR

\* enum Packet (repr u8)
ZCRCE == 104

ZCRCG == 105

ZCRCQ == 106

ZCRCW == 107

Packets == {ZCRCE, ZCRCG, ZCRCQ, ZCRCW}

\* enum Stage
Waiting == "Waiting"

Ready == "Ready"

InProgress == "InProgress"

Done == "Done"

Stages == {Waiting, Ready, InProgress, Done}

\* Zrinit::CANFDX | Zrinit::CANOVIO | Zrinit::CANFC32
ZrinitBits == 35

(***************************************************************************)
(* The escape tables, entry for entry (index 0 is the first element).      *)
(***************************************************************************)
ZDLE_TABLE ==
  <<
      0,   1,   2,   3,   4,   5,   6,   7,   8,   9,  10,  11,  12,  77,  14,  15,
     80,  81,  18,  83,  20,  21,  22,  23,  88,  25,  26,  27,  28,  29,  30,  31,
     32,  33,  34,  35,  36,  37,  38,  39,  40,  41,  42,  43,  44,  45,  46,  47,
     48,  49,  50,  51,  52,  53,  54,  55,  56,  57,  58,  59,  60,  61,  62,  63,
     64,  65,  66,  67,  68,  69,  70,  71,  72,  73,  74,  75,  76,  77,  78,  79,
     80,  81,  82,  83,  84,  85,  86,  87,  88,  89,  90,  91,  92,  93,  94,  95,
     96,  97,  98,  99, 100, 101, 102, 103, 104, 105, 106, 107, 108, 109, 110, 111,
    112, 113, 114, 115, 116, 117, 118, 119, 120, 121, 122, 123, 124, 125, 126, 108,
    128, 129, 130, 131, 132, 133, 134, 135, 136, 137, 138, 139, 140, 205, 142, 143,
    208, 209, 146, 211, 148, 149, 150, 151, 152, 153, 154, 155, 156, 157, 158, 159,
    160, 161, 162, 163, 164, 165, 166, 167, 168, 169, 170, 171, 172, 173, 174, 175,
    176, 177, 178, 179, 180, 181, 182, 183, 184, 185, 186, 187, 188, 189, 190, 191,
    192, 193, 194, 195, 196, 197, 198, 199, 200, 201, 202, 203, 204, 205, 206, 207,
    208, 209, 210, 211, 212, 213, 214, 215, 216, 217, 218, 219, 220, 221, 222, 223,
    224, 225, 226, 227, 228, 229, 230, 231, 232, 233, 234, 235, 236, 237, 238, 239,
    240, 241, 242, 243, 244, 245, 246, 247, 248, 249, 250, 251, 252, 253, 254, 109
  >>

UNZDLE_TABLE ==
  <<
      0,   1,   2,   3,   4,   5,   6,   7,   8,   9,  10,  11,  12,  13,  14,  15,
     16,  17,  18,  19,  20,  21,  22,  23,  24,  25,  26,  27,  28,  29,  30,  31,
     32,  33,  34,  35,  36,  37,  38,  39,  40,  41,  42,  43,  44,  45,  46,  47,
     48,  49,  50,  51,  52,  53,  54,  55,  56,  57,  58,  59,  60,  61,  62,  63,
      0,   1,   2,   3,   4,   5,   6,   7,   8,   9,  10,  11,  12,  13,  14,  15,
     16,  17,  18,  19,  20,  21,  22,  23,  24,  25,  26,  27,  28,  29,  30,  31,
     96,  97,  98,  99, 100, 101, 102, 103, 104, 105, 106, 107, 127, 255, 110, 111,
    112, 113, 114, 115, 116, 117, 118, 119, 120, 121, 122, 123, 124, 125, 126, 127,
    128, 129, 130, 131, 132, 133, 134, 135, 136, 137, 138, 139, 140, 141, 142, 143,
    144, 145, 146, 147, 148, 149, 150, 151, 152, 153, 154, 155, 156, 157, 158, 159,
    160, 161, 162, 163, 164, 165, 166, 167, 168, 169, 170, 171, 172, 173, 174, 175,
    176, 177, 178, 179, 180, 181, 182, 183, 184, 185, 186, 187, 188, 189, 190, 191,
    128, 129, 130, 131, 132, 133, 134, 135, 136, 137, 138, 139, 140, 141, 142, 143,
    144, 145, 146, 147, 148, 149, 150, 151, 152, 153, 154, 155, 156, 157, 158, 159,
    224, 225, 226, 227, 228, 229, 230, 231, 232, 233, 234, 235, 236, 237, 238, 239,
    240, 241, 242, 243, 244, 245, 246, 247, 248, 249, 250, 251, 252, 253, 254, 255
  >>

(***************************************************************************)
(* Bind([x \in {e} |-> body]) is body with x standing for the value of e,  *)
(* as in Rust's `let x = e; body`: e is evaluated once, before body.       *)
(***************************************************************************)
Bind(f) == f[CHOOSE x \in DOMAIN f : TRUE]

(***************************************************************************)
(* Bit operations on naturals (TLA+ has no xor).                           *)
(***************************************************************************)
RECURSIVE Xor(_, _)
Xor(a, b) ==
  IF a = 0 THEN b
  ELSE IF b = 0 THEN a
  ELSE ((a + b) % 2) + 2 * Xor(a \div 2, b \div 2)

(***************************************************************************)
(* CRC-16/XMODEM: polynomial 0x1021, initial value 0, not reflected, no    *)
(* final xor.  The register is a 16-bit natural.                           *)
(***************************************************************************)
Crc16Shift(c) ==
  IF c >= 32768 THEN Xor((c * 2) % 65536, 4129) ELSE c * 2

RECURSIVE Crc16Shifts(_, _)
Crc16Shifts(c, n) == IF n = 0 THEN c ELSE Crc16Shifts(Crc16Shift(c), n - 1)

Crc16Table == [i \in Byte |-> Crc16Shifts(i * 256, 8)]

Crc16Update(crc, b) ==
  Xor((crc % 256) * 256, Crc16Table[Xor(crc \div 256, b)])

RECURSIVE Crc16Fold(_, _, _)
Crc16Fold(crc, data, i) ==
  IF i > Len(data) THEN crc ELSE Crc16Fold(Crc16Update(crc, data[i]), data, i + 1)

\* CRC16.checksum(data).to_be_bytes()
Crc16Bytes(data) ==
  Bind([crc \in {Crc16Fold(0, data, 1)} |-> <<crc \div 256, crc % 256>>])

(***************************************************************************)
(* CRC-32/ISO-HDLC: reflected polynomial 0xEDB88320, initial value and     *)
(* final xor 0xFFFFFFFF.  The 32-bit register is kept as its four octets,  *)
(* least significant first, so that no value leaves the 32-bit integers.   *)
(***************************************************************************)
Crc32Shift(c) ==
  LET hi == c[1]
      lo == c[2]
      hi1 == hi \div 2
      lo1 == (lo \div 2) + (hi % 2) * 32768
  IN IF lo % 2 = 1 THEN <<Xor(hi1, 60856), Xor(lo1, 33568)>> ELSE <<hi1, lo1>>

RECURSIVE Crc32Shifts(_, _)
Crc32Shifts(c, n) == IF n = 0 THEN c ELSE Crc32Shifts(Crc32Shift(c), n - 1)

Crc32Table ==
  [i \in Byte |->
     Bind([c \in {Crc32Shifts(<<0, i>>, 8)} |->
       <<c[2] % 256, c[2] \div 256, c[1] % 256, c[1] \div 256>>])]

Crc32Update(crc, b) ==
  Bind([t \in {Crc32Table[Xor(crc[1], b)]} |->
    <<Xor(crc[2], t[1]), Xor(crc[3], t[2]), Xor(crc[4], t[3]), t[4]>>])

RECURSIVE Crc32Fold(_, _, _)
Crc32Fold(crc, data, i) ==
  IF i > Len(data) THEN crc ELSE Crc32Fold(Crc32Update(crc, data[i]), data, i + 1)

\* CRC32.checksum(data).to_le_bytes()
Crc32Bytes(data) ==
  Bind([crc \in {Crc32Fold(<<255, 255, 255, 255>>, data, 1)} |->
    <<255 - crc[1], 255 - crc[2], 255 - crc[3], 255 - crc[4]>>])

\* make_crc: the CRC octets of data for an encoding
make_crc(data, encoding) ==
  IF encoding = ZBIN32 THEN Crc32Bytes(data) ELSE Crc16Bytes(data)

\* a faulty check_crc: every CRC is accepted
check_crc_skipped(data, crc, encoding) == "Ok"

\* check_crc: "Ok" or "Data"
check_crc(data, crc, encoding) ==
  IF crc = make_crc(data, encoding) THEN "Ok" ELSE "Data"

(***************************************************************************)
(* Sequences of octets.                                                    *)
(***************************************************************************)
RECURSIVE Flatten(_)
Flatten(ss) == IF ss = <<>> THEN <<>> ELSE Head(ss) \o Flatten(Tail(ss))

Take(s, n) == SubSeq(s, 1, n)

Drop(s, n) == SubSeq(s, n + 1, Len(s))

Min(a, b) == IF a <= b THEN a ELSE b

\* u32::to_le_bytes
to_le_bytes(n) ==
  <<n % 256, (n \div 256) % 256, (n \div 65536) % 256, (n \div 16777216) % 256>>

\* u32::from_le_bytes (Header::count)
from_le_bytes(f) == f[1] + 256 * f[2] + 65536 * f[3] + 16777216 * f[4]

(***************************************************************************)
(* The escape codec on octets.                                             *)
(***************************************************************************)
\* a faulty write_byte_escaped: no octet is escaped
EscapedByteAsIs(value) == <<value>>

\* what write_byte_escaped emits for one octet
EscapedByte(value) ==
  Bind([escaped \in {ZDLE_TABLE[value + 1]} |->
    IF escaped # value THEN <<ZDLE, escaped>> ELSE <<escaped>>])

\* what write_slice_escaped emits for a slice
EscapedSlice(buf) == Flatten([i \in 1..Len(buf) |-> EscapedByte(buf[i])])

\* hex::encode_to_slice: two lowercase digits per octet
HexDigit(n) == IF n < 10 THEN 48 + n ELSE 87 + n

HexEncode(buf) ==
  Flatten([i \in 1..Len(buf) |-> <<HexDigit(buf[i] \div 16), HexDigit(buf[i] % 16)>>])

\* hex::decode_to_slice: the value of a digit of either case, -1 if none
HexVal(c) ==
  IF c \in 48..57 THEN c - 48
  ELSE IF c \in 97..102 THEN c - 87
  ELSE IF c \in 65..70 THEN c - 55
  ELSE -1

HexValid(digits) ==
  /\ Len(digits) % 2 = 0
  /\ \A i \in 1..Len(digits) : HexVal(digits[i]) >= 0

HexDecode(digits) ==
  [i \in 1..(Len(digits) \div 2) |->
     16 * HexVal(digits[2 * i - 1]) + HexVal(digits[2 * i])]

(***************************************************************************)
(* Headers.  A header is a record [encoding, frame, flags].                *)
(***************************************************************************)
Header_new(encoding, frame, flags) ==
  [encoding |-> encoding, frame |-> frame, flags |-> flags]

\* a faulty count(): the flags are not read
Header_count_zero(h) == 0

Header_count(h) == from_le_bytes(h.flags)

\* a faulty with_count: the count is not stored
Header_with_count_kept(h, count) == h

Header_with_count(h, count) == Header_new(h.encoding, h.frame, to_le_bytes(count))

ZeroFlags == <<0, 0, 0, 0>>

ZACK_HEADER == Header_new(ZHEX, ZACK, ZeroFlags)

ZDATA_HEADER == Header_new(ZBIN32, ZDATA, ZeroFlags)

ZEOF_HEADER == Header_new(ZBIN32, ZEOF, ZeroFlags)

ZFIN_HEADER == Header_new(ZHEX, ZFIN, ZeroFlags)

\* a faulty ZNAK_HEADER: the frame type is ZRPOS
ZNAK_HEADER_zrpos == Header_new(ZHEX, ZRPOS, ZeroFlags)

ZNAK_HEADER == Header_new(ZHEX, ZNAK, ZeroFlags)

ZRPOS_HEADER == Header_new(ZHEX, ZRPOS, ZeroFlags)

ZRQINIT_HEADER == Header_new(ZHEX, ZRQINIT, ZeroFlags)

ZRINIT_HEADER == Header_new(ZHEX, ZRINIT, <<0, 0, 0, ZrinitBits>>)

ZFILE_HEADER == Header_new(ZBIN32, ZFILE, ZeroFlags)

\* size_of::<Header>(): encoding, frame and four flag octets
HeaderSizeOf == 6

\* a faulty Header::unescaped_size: the size of a ZBIN header for every encoding
unescaped_size_zbin(encoding) == HeaderSizeOf + 2

\* Header::unescaped_size
unescaped_size(encoding) ==
  IF encoding = ZBIN THEN HeaderSizeOf + 2
  ELSE IF encoding = ZBIN32 THEN HeaderSizeOf + 4
  ELSE (HeaderSizeOf + 2) * 2 - 1

\* the octets Header::write hands to the port, in order
HeaderBytes(h) ==
  Bind([out \in {<<h.frame>> \o h.flags \o make_crc(<<h.frame>> \o h.flags, h.encoding)} |->
    <<ZPAD>>
    \o (IF h.encoding = ZHEX THEN <<ZPAD>> ELSE <<>>)
    \o <<ZDLE, h.encoding>>
    \o EscapedSlice(IF h.encoding = ZHEX THEN HexEncode(out) ELSE out)
    \o (IF h.encoding = ZHEX
          THEN <<CR, LF>>
               \o (IF h.frame # ZACK /\ h.frame # ZFIN THEN <<XON>> ELSE <<>>)
          ELSE <<>>)])

\* the octets write_subpacket hands to the port, in order (ZBIN, ZBIN32)
SubpacketBytes(encoding, kind, data) ==
  EscapedSlice(data) \o <<ZDLE, kind>>
  \o EscapedSlice(make_crc(data \o <<kind>>, encoding))

(***************************************************************************)
(* One call of send or receive works on a world w: the port (inp, the      *)
(* octets the transport holds; pos, how many of them were read; out, the   *)
(* octets written; wcap, how many octets the transport accepts before its  *)
(* write side fails, negative for no limit; blocking, whether a read of an *)
(* exhausted transport waits instead of failing), the session State        *)
(* (stage, count, file_name, file_size, buf), the file (file, fpos) and a  *)
(* record of what the call did (rfail, wfail, aligned, hdr, log).          *)
(* Every operation returns [err, val, w]: err is "Ok" or the Error         *)
(* ("Data", "Read", "Write"), or "Block" when a blocking read has to wait. *)
(***************************************************************************)
NoHeader == [encoding |-> 0, frame |-> -1, flags |-> <<>>]

Ok(w, v) == [err |-> "Ok", val |-> v, w |-> w]

Fail(w, e) == [err |-> e, val |-> 0, w |-> w]

\* Read::read_byte on the port
read_byte(w) ==
  IF w.pos < Len(w.inp)
    THEN Ok([w EXCEPT !.pos = @ + 1], w.inp[w.pos + 1])
    ELSE IF w.blocking
           THEN Fail(w, "Block")
           ELSE Fail([w EXCEPT !.rfail = TRUE], "Read")

\* Write::write_byte on the port, once per octet, each followed by `?`
write_bytes(w, bytes) ==
  IF w.wcap < 0 \/ Len(w.out) + Len(bytes) <= w.wcap
    THEN Ok([w EXCEPT !.out = @ \o bytes], 0)
    ELSE Fail([w EXCEPT !.out = @ \o Take(bytes, w.wcap - Len(@)),
                        !.wfail = TRUE], "Write")

write_byte(w, value) == write_bytes(w, <<value>>)

write_byte_escaped(w, value) == write_bytes(w, EscapedByte(value))

write_slice_escaped(w, buf) == write_bytes(w, EscapedSlice(buf))

\* a faulty read_byte_unescaped: the octet is returned as it was read
read_byte_raw(w) == read_byte(w)

read_byte_unescaped(w) ==
  Bind([r \in {read_byte(w)} |->
    IF r.err # "Ok" THEN r
    ELSE IF r.val = ZDLE
      THEN Bind([r2 \in {read_byte(r.w)} |->
             IF r2.err # "Ok" THEN r2
             ELSE Ok(r2.w, UNZDLE_TABLE[r2.val + 1])])
      ELSE r])

\* n times read_byte_unescaped(port)?, the octets collected in acc
RECURSIVE ReadUnescaped(_, _, _)
ReadUnescaped(w, n, acc) ==
  IF n = 0 THEN Ok(w, acc)
  ELSE Bind([r \in {read_byte_unescaped(w)} |->
         IF r.err # "Ok" THEN r
         ELSE ReadUnescaped(r.w, n - 1, Append(acc, r.val))])

Encoding_try_from(value) == IF value \in Encodings THEN "Ok" ELSE "Data"

Frame_try_from(value) == IF value \in Frames THEN "Ok" ELSE "Data"

Packet_try_from(value) == IF value \in Packets THEN "Ok" ELSE "Data"

\* an entry of the call's log: a header written (count: its four flag octets,
\* the count in little-endian order), a subpacket read (count: state.count
\* when it was read, kind, and the length of the payload), a file write
LogEntry(ev, frame, count, kind, len) ==
  [ev |-> ev, frame |-> frame, count |-> count, kind |-> kind, len |-> len]

Logged(w, e) == [w EXCEPT !.log = Append(@, e)]

\* a faulty Header::write: the header is dropped, the call reports success
Header_write_dropped(w, h) == Ok(w, 0)

Header_write(w, h) ==
  Bind([r \in {write_bytes(w, HeaderBytes(h))} |->
    IF r.err # "Ok" THEN r
    ELSE Ok(Logged(r.w, LogEntry("hdr_out", h.frame, h.flags, 0, 0)), 0)])

\* the end of Header::read: the octets after the encoding octet
Header_read_body(w, encoding) ==
  Bind([rs \in {ReadUnescaped(w, unescaped_size(encoding) - 1, <<>>)} |->
    IF rs.err # "Ok" THEN rs
    ELSE IF encoding = ZHEX /\ ~HexValid(rs.val) THEN Fail(rs.w, "Data")
    ELSE
      Bind([out \in {IF encoding = ZHEX THEN HexDecode(rs.val) ELSE rs.val} |->
        IF check_crc(Take(out, 5), Drop(out, 5), encoding) # "Ok"
          THEN Fail(rs.w, "Data")
        ELSE IF Frame_try_from(out[1]) # "Ok" THEN Fail(rs.w, "Data")
        ELSE Ok(rs.w, Header_new(encoding, out[1], SubSeq(out, 2, 5)))])])

Header_read(w) ==
  Bind([r0 \in {read_byte(w)} |->
    IF r0.err # "Ok" THEN r0
    ELSE IF Encoding_try_from(r0.val) # "Ok" THEN Fail(r0.w, "Data")
    ELSE Header_read_body(r0.w, r0.val)])

\* a faulty read_zpad: the second ZPAD is not allowed for
read_zpad_one(w) ==
  Bind([r1 \in {read_byte(w)} |->
    IF r1.err # "Ok" THEN r1
    ELSE IF r1.val # ZPAD THEN Fail(r1.w, "Data")
    ELSE
      Bind([r2 \in {read_byte(r1.w)} |->
        IF r2.err # "Ok" THEN r2
        ELSE IF r2.val = ZDLE THEN Ok(r2.w, 0)
        ELSE Fail(r2.w, "Data")])])

\* Skips (ZPAD, [ZPAD,] ZDLE)
read_zpad(w) ==
  Bind([r1 \in {read_byte(w)} |->
    IF r1.err # "Ok" THEN r1
    ELSE IF r1.val # ZPAD THEN Fail(r1.w, "Data")
    ELSE
      Bind([r2 \in {read_byte(r1.w)} |->
        IF r2.err # "Ok" THEN r2
        ELSE
          Bind([r3 \in {IF r2.val = ZPAD THEN read_byte(r2.w) ELSE r2} |->
            IF r3.err # "Ok" THEN r3
            ELSE IF r3.val = ZDLE THEN Ok(r3.w, 0)
            ELSE Fail(r3.w, "Data")])])])

\* a faulty crc_len: two octets for every encoding
CrcLenTwo(encoding) == 2

CrcLen(encoding) == IF encoding = ZBIN32 THEN 4 ELSE 2

\* a faulty skip_subpacket_tail: a payload that fills the buffer is an error
skip_subpacket_tail_failed(w, encoding) == Fail(w, "Data")

\* Skips the tail of the subpacket (including CRC)
RECURSIVE skip_subpacket_tail(_, _)
skip_subpacket_tail(w, encoding) ==
  Bind([r \in {read_byte(w)} |->
    IF r.err # "Ok" THEN r
    ELSE IF r.val # ZDLE THEN skip_subpacket_tail(r.w, encoding)
    ELSE
      Bind([r2 \in {read_byte(r.w)} |->
        IF r2.err # "Ok" THEN r2
        ELSE IF Packet_try_from(r2.val) # "Ok"
          THEN skip_subpacket_tail(r2.w, encoding)
        ELSE
          Bind([rc \in {ReadUnescaped(r2.w, CrcLen(encoding), <<>>)} |->
            IF rc.err # "Ok" THEN rc ELSE Ok(rc.w, r2.val)])])])

\* the end of read_subpacket: the CRC octets, check_crc, and the pop of ZCRC
read_subpacket_crc(w, encoding, packet) ==
  Bind([rc \in {ReadUnescaped(w, CrcLen(encoding), <<>>)} |->
    IF rc.err # "Ok" THEN rc
    ELSE IF check_crc(rc.w.buf, rc.val, encoding) # "Ok" THEN Fail(rc.w, "Data")
    ELSE Ok([rc.w EXCEPT !.buf = Take(@, Len(@) - 1)], packet)])

\* the loop of read_subpacket, and its step after an octet was pushed to buf
RECURSIVE read_subpacket_loop(_, _), read_subpacket_pushed(_, _)
read_subpacket_pushed(w, encoding) ==
  IF Len(w.buf) = BUFFER_SIZE
    THEN Bind([s \in {skip_subpacket_tail(w, encoding)} |->
           IF s.err # "Ok" THEN s
           ELSE Ok([s.w EXCEPT !.buf = <<>>], s.val)])
    ELSE read_subpacket_loop(w, encoding)

read_subpacket_loop(w, encoding) ==
  Bind([r \in {read_byte(w)} |->
    IF r.err # "Ok" THEN r
    ELSE IF r.val # ZDLE
      THEN read_subpacket_pushed([r.w EXCEPT !.buf = Append(@, r.val)], encoding)
    ELSE
      Bind([r2 \in {read_byte(r.w)} |->
        IF r2.err # "Ok" THEN r2
        ELSE IF Packet_try_from(r2.val) = "Ok"
          THEN read_subpacket_crc([r2.w EXCEPT !.buf = Append(@, r2.val)],
                                  encoding, r2.val)
        ELSE read_subpacket_pushed(
               [r2.w EXCEPT !.buf = Append(@, UNZDLE_TABLE[r2.val + 1])], encoding)])])

\* Reads and unescapes a ZMODEM protocol subpacket into the State's buffer
read_subpacket(w, encoding) ==
  read_subpacket_loop([w EXCEPT !.buf = <<>>], encoding)

write_subpacket(w, encoding, kind, data) ==
  write_bytes(w, SubpacketBytes(encoding, kind, data))

(***************************************************************************)
(* Text: what the crate takes from core and heapless for the ZFILE         *)
(* subpacket "name\0size\0".                                               *)
(***************************************************************************)
\* a faulty conversion: the decimal digits of n, least significant first
RECURSIVE DecimalReversed(_)
DecimalReversed(n) ==
  IF n < 10 THEN <<48 + n>> ELSE <<48 + (n % 10)>> \o DecimalReversed(n \div 10)

\* String::<17>::try_from(u32): the decimal digits of n
RECURSIVE Decimal(_)
Decimal(n) ==
  IF n < 10 THEN <<48 + n>> ELSE Append(Decimal(n \div 10), 48 + (n % 10))

\* core::str::from_utf8(..).is_ok(), from index i on
RECURSIVE Utf8ValidFrom(_, _)
Utf8ValidFrom(b, i) ==
  LET n == Len(b)
      cont(j) == j <= n /\ b[j] \in 128..191
      in(j, lo, hi) == j <= n /\ b[j] \in lo..hi
      c == b[i]
  IN IF i > n THEN TRUE
     ELSE IF c < 128 THEN Utf8ValidFrom(b, i + 1)
     ELSE IF c \in 194..223 THEN cont(i + 1) /\ Utf8ValidFrom(b, i + 2)
     ELSE IF c = 224 THEN in(i + 1, 160, 191) /\ cont(i + 2) /\ Utf8ValidFrom(b, i + 3)
     ELSE IF c \in (225..236) \cup {238, 239}
       THEN cont(i + 1) /\ cont(i + 2) /\ Utf8ValidFrom(b, i + 3)
     ELSE IF c = 237 THEN in(i + 1, 128, 159) /\ cont(i + 2) /\ Utf8ValidFrom(b, i + 3)
     ELSE IF c = 240
       THEN in(i + 1, 144, 191) /\ cont(i + 2) /\ cont(i + 3) /\ Utf8ValidFrom(b, i + 4)
     ELSE IF c \in 241..243
       THEN cont(i + 1) /\ cont(i + 2) /\ cont(i + 3) /\ Utf8ValidFrom(b, i + 4)
     ELSE IF c = 244
       THEN in(i + 1, 128, 143) /\ cont(i + 2) /\ cont(i + 3) /\ Utf8ValidFrom(b, i + 4)
     ELSE FALSE

Utf8Valid(b) == Utf8ValidFrom(b, 1)

\* payload.split('\0'): the fields between NULs (always at least one)
RECURSIVE SplitNul(_, _, _)
SplitNul(b, i, cur) ==
  IF i > Len(b) THEN <<cur>>
  ELSE IF b[i] = 0 THEN <<cur>> \o SplitNul(b, i + 1, <<>>)
  ELSE SplitNul(b, i + 1, Append(cur, b[i]))

\* u8::is_ascii_whitespace: space, tab, LF, FF, CR
AsciiWhitespace == {32, 9, 10, 12, 13}

RECURSIVE SkipWhitespace(_)
SkipWhitespace(b) ==
  IF b # <<>> /\ Head(b) \in AsciiWhitespace THEN SkipWhitespace(Tail(b)) ELSE b

RECURSIVE TakeToken(_)
TakeToken(b) ==
  IF b = <<>> \/ Head(b) \in AsciiWhitespace THEN <<>>
  ELSE <<Head(b)>> \o TakeToken(Tail(b))

\* field.split_ascii_whitespace().next(): the first token, <<>> for None
FirstToken(field) == TakeToken(SkipWhitespace(field))

\* u32::from_str: an optional '+' and at least one digit.  The model's
\* integers hold nine digits; longer tokens do not fit the scaled buffer.
U32Digits(tok) == IF tok # <<>> /\ Head(tok) = 43 THEN Tail(tok) ELSE tok

U32Valid(tok) ==
  \E d \in {U32Digits(tok)} :
    /\ Len(d) \in 1..9
    /\ \A i \in 1..Len(d) : d[i] \in 48..57

RECURSIVE DigitsValue(_)
DigitsValue(d) ==
  IF d = <<>> THEN 0 ELSE 10 * DigitsValue(Take(d, Len(d) - 1)) + (d[Len(d)] - 48)

U32FromStr(tok) == DigitsValue(U32Digits(tok))

(***************************************************************************)
(* The file of a send session: Read + Seek over the octets of w.file, as   *)
(* an in-memory cursor (tests/lib.rs).                                     *)
(***************************************************************************)
file_seek(w, offset) == [w EXCEPT !.fpos = offset]

\* file.read(buf) with buf.len() = n: the octets read, at most n
FileAvail(w, n) == Min(n, IF w.fpos < Len(w.file) THEN Len(w.file) - w.fpos ELSE 0)

file_read(w, n) ==
  Bind([k \in {FileAvail(w, n)} |->
    Ok([w EXCEPT !.buf = SubSeq(w.file, w.fpos + 1, w.fpos + k), !.fpos = @ + k], k)])

\* file.write_all(buf) on the sink of a receive session
file_write_all(w, bytes) ==
  Logged([w EXCEPT !.file = @ \o bytes], LogEntry("file_out", 0, 0, 0, Len(bytes)))

(***************************************************************************)
(* The frames of a session.                                                *)
(***************************************************************************)
\* Writes ZRINIT
write_zrinit(w) == Header_write(w, ZRINIT_HEADER)

\* Write ZFILE: the header and one ZCRCW subpacket "name\0size\0"
write_zfile(w, name, size) ==
  Bind([r \in {Header_write([w EXCEPT !.buf = name \o <<0>> \o Decimal(size) \o <<0>>],
                            ZFILE_HEADER)} |->
    IF r.err # "Ok" THEN r
    ELSE write_subpacket(r.w, ZBIN32, ZCRCW, r.w.buf)])

\* a faulty read_zfile: the fields of the payload are not latched
read_zfile_fields_dropped(w) == Ok(w, 0)

\* the fields of the ZFILE payload, latched into the State one by one
read_zfile_fields(w) ==
  Bind([fields \in {SplitNul(w.buf, 1, <<>>)} |->
    IF Len(fields[1]) > FILE_NAME_CAPACITY THEN Fail(w, "Data")
    ELSE
      Bind([w1 \in {[w EXCEPT !.file_name = fields[1]]} |->
        Bind([tok \in {IF Len(fields) >= 2 THEN FirstToken(fields[2]) ELSE <<>>} |->
          IF tok = <<>> THEN Ok(w1, 0)
          ELSE IF ~U32Valid(tok) THEN Fail(w1, "Data")
          ELSE Ok([w1 EXCEPT !.file_size = U32FromStr(tok)], 0)])])])

\* Parses filename and size from the subpacket sent after the ZFILE header
read_zfile(w, encoding) ==
  Bind([r \in {read_subpacket(w, encoding)} |->
    IF r.err = "Block" THEN r
    ELSE IF r.err = "Ok"
      THEN IF ~Utf8Valid(r.w.buf) THEN Fail(r.w, "Data")
           ELSE Bind([f \in {read_zfile_fields(r.w)} |->
                  IF f.err # "Ok" THEN f
                  ELSE Header_write(f.w, Header_with_count(ZRPOS_HEADER, 0))])
    ELSE Bind([z \in {Header_write(r.w, ZNAK_HEADER)} |->
           IF z.err = "Ok" THEN z ELSE Fail(z.w, "Data")])])

\* a faulty write_zdata: the last subpacket of a burst asks for no ZACK
write_zdata_last_zcrcg(w, count) ==
  write_subpacket(w, ZBIN32, ZCRCG, Take(w.buf, count))

\* the last subpacket of a burst
write_zdata_last(w, count) ==
  write_subpacket(w, ZBIN32, ZCRCW, Take(w.buf, count))

\* the loop of write_zdata, at its i-th round (for _ in 1..SUBPACKET_PER_ACK)
RECURSIVE write_zdata_loop(_, _, _)
write_zdata_loop(w, count, i) ==
  IF i >= SUBPACKET_PER_ACK THEN write_zdata_last(w, count)
  ELSE Bind([s \in {write_subpacket(w, ZBIN32, ZCRCG, Take(w.buf, count))} |->
         IF s.err # "Ok" THEN s
         ELSE Bind([r \in {file_read(s.w, BUFFER_SIZE - 2)} |->
                IF r.val < BUFFER_SIZE - 2
                  THEN write_zdata_last(r.w, r.val)
                  ELSE write_zdata_loop(r.w, r.val, i + 1)])])

\* Writes ZDATA
write_zdata(w, offset) ==
  Bind([r \in {file_read(file_seek(w, offset), BUFFER_SIZE - 2)} |->
    IF r.val = 0
      THEN Header_write(r.w, Header_with_count(ZEOF_HEADER, offset))
      ELSE Bind([h \in {Header_write(r.w, Header_with_count(ZDATA_HEADER, offset))} |->
             IF h.err # "Ok" THEN h
             ELSE write_zdata_loop(h.w, r.val, 1)])])

\* a faulty state.count = buf.len()
AdvanceCountAssigned(count, len) == len

\* a faulty state.count += buf.len() + 1
AdvanceCountOffByOne(count, len) == count + len + 1

\* state.count += buf.len()
AdvanceCount(count, len) == count + len

\* what read_zdata does with a subpacket that read_subpacket returned
read_zdata_accept(w) ==
  [file_write_all(w, w.buf) EXCEPT !.count = AdvanceCount(@, Len(w.buf))]

\* a faulty read_zdata: the loop ends after the first subpacket, whatever
\* its terminator, and no ZACK is written
read_zdata_write_once(w, encoding, zcrc) == Ok(read_zdata_accept(w), 0)

\* Reads ZDATA, and its rounds from file.write_all on and after Error::Data
RECURSIVE read_zdata(_, _), read_zdata_write(_, _, _), read_zdata_nak(_, _)
read_zdata_write(w, encoding, zcrc) ==
  Bind([w2 \in {read_zdata_accept(w)} |->
    IF zcrc = ZCRCW
      THEN Header_write(w2, Header_with_count(ZACK_HEADER, w2.count))
    ELSE IF zcrc = ZCRCE THEN Ok(w2, 0)
    ELSE IF zcrc = ZCRCQ
      THEN Bind([a \in {Header_write(w2, Header_with_count(ZACK_HEADER, w2.count))} |->
             IF a.err # "Ok" THEN a ELSE read_zdata(a.w, encoding)])
    ELSE read_zdata(w2, encoding)])

\* a faulty read_zdata: a subpacket that fails its check ends the call
read_zdata_nak_returns(w, encoding) == Fail(w, "Data")

read_zdata_nak(w, encoding) ==
  Bind([z \in {Header_write(w, Header_with_count(ZNAK_HEADER, w.count))} |->
    IF z.err # "Ok" THEN z ELSE read_zdata(z.w, encoding)])

read_zdata(w, encoding) ==
  Bind([r \in {read_subpacket(w, encoding)} |->
    IF r.err = "Ok"
      THEN
        Bind([wl \in {Logged(r.w, LogEntry("sub_in", 0, r.w.count, r.val, Len(r.w.buf)))} |->
          Bind([p \in {IF wl.buf = <<>>
                         THEN Header_write(wl, Header_with_count(ZRPOS_HEADER, wl.count))
                         ELSE Ok(wl, 0)} |->
            IF p.err # "Ok" THEN p ELSE read_zdata_write(p.w, encoding, r.val)])])
    ELSE IF r.err = "Data"
      THEN read_zdata_nak(Logged(r.w, LogEntry("sub_bad", 0, r.w.count, 0, 0)), encoding)
    ELSE r])

(***************************************************************************)
(* send and receive: one turn each.                                        *)
(***************************************************************************)
\* a faulty step: the stage assigned is Done, whichever was meant
SetStageDone(r, stage) ==
  Bind([x \in {r} |-> IF x.err # "Ok" THEN x ELSE Ok([x.w EXCEPT !.stage = Done], 0)])

\* a faulty step: the stage is assigned although the write before it failed
SetStageAnyway(r, stage) == Ok([r.w EXCEPT !.stage = stage], 0)

\* `<write>?; state.stage = <stage>;`
SetStage(r, stage) ==
  Bind([x \in {r} |-> IF x.err # "Ok" THEN x ELSE Ok([x.w EXCEPT !.stage = stage], 0)])

\* send, from the match on the frame type
send_dispatch(w, frame) ==
  IF frame.frame = ZRINIT THEN
    IF w.stage = Waiting
      THEN SetStage(write_zfile(w, w.file_name, w.file_size), Ready)
    ELSE IF w.stage = InProgress THEN Header_write(w, ZFIN_HEADER)
    ELSE Ok(w, 0)
  ELSE IF frame.frame \in {ZRPOS, ZACK} THEN
    IF w.stage = Waiting THEN Header_write(w, ZRQINIT_HEADER)
    ELSE IF w.stage \in {Ready, InProgress}
      THEN SetStage(write_zdata(w, Header_count(frame)), InProgress)
    ELSE Ok(w, 0)
  ELSE IF frame.frame = ZFIN THEN
    IF w.stage = Waiting THEN Header_write(w, ZRQINIT_HEADER)
    ELSE IF w.stage = InProgress
      THEN Bind([o1 \in {write_byte(w, 79)} |->
             IF o1.err # "Ok" THEN o1
             ELSE SetStage(write_byte(o1.w, 79), Done)])
    ELSE Ok(w, 0)
  ELSE IF w.stage = Waiting THEN Header_write(w, ZRQINIT_HEADER)
  ELSE Ok(w, 0)

\* receive, from the match on the frame type
receive_dispatch(w, header) ==
  IF header.frame = ZFILE THEN
    IF w.stage \in {Waiting, Ready}
      THEN SetStage(read_zfile(w, header.encoding), Ready)
    ELSE Ok(w, 0)
  ELSE IF header.frame = ZDATA THEN
    IF w.stage = Waiting THEN write_zrinit(w)
    ELSE IF w.stage \in {Ready, InProgress}
      THEN IF Header_count(header) # w.count
             THEN Header_write(w, Header_with_count(ZRPOS_HEADER, w.count))
             ELSE SetStage(read_zdata(w, header.encoding), InProgress)
    ELSE Ok(w, 0)
  ELSE IF header.frame = ZEOF THEN
    IF w.stage = InProgress /\ Header_count(header) = w.count
      THEN write_zrinit(w)
      ELSE Ok(w, 0)
  ELSE IF header.frame = ZFIN THEN
    IF w.stage = InProgress
      THEN SetStage(Header_write(w, ZFIN_HEADER), Done)
      ELSE Ok(w, 0)
  ELSE Ok(w, 0)

\* Sends a file using the ZMODEM file transfer protocol: one turn
send(w) ==
  Bind([e \in {IF w.stage = Waiting THEN Header_write(w, ZRQINIT_HEADER) ELSE Ok(w, 0)} |->
    IF e.err # "Ok" THEN e
    ELSE
      Bind([z \in {read_zpad(e.w)} |->
        IF z.err = "Block" THEN z
        ELSE IF z.err # "Ok" THEN Ok(z.w, 0)
        ELSE
          Bind([h \in {Header_read([z.w EXCEPT !.aligned = TRUE])} |->
            IF h.err = "Block" THEN h
            ELSE IF h.err # "Ok"
              THEN Bind([n \in {Header_write(h.w, ZNAK_HEADER)} |->
                     IF n.err # "Ok" THEN n ELSE Ok(n.w, 0)])
            ELSE send_dispatch([h.w EXCEPT !.hdr = h.val], h.val)])])])

\* Receives a file using the ZMODEM file transfer protocol: one turn
receive(w) ==
  Bind([e \in {IF w.stage = Waiting THEN write_zrinit(w) ELSE Ok(w, 0)} |->
    IF e.err # "Ok" THEN e
    ELSE
      Bind([z \in {read_zpad(e.w)} |->
        IF z.err = "Block" THEN z
        ELSE IF z.err # "Ok" THEN Ok(z.w, 0)
        ELSE
          Bind([h \in {Header_read([z.w EXCEPT !.aligned = TRUE])} |->
            IF h.err = "Block" THEN h
            ELSE IF h.err # "Ok"
              THEN Bind([n \in {Header_write(h.w, ZNAK_HEADER)} |->
                     IF n.err # "Ok" THEN n ELSE Ok(n.w, 0)])
            ELSE receive_dispatch([h.w EXCEPT !.hdr = h.val], h.val)])])])

(***************************************************************************)
(* Sessions.                                                               *)
(***************************************************************************)
\* State::new().  The scratch buffer buf is part of the world of a call and
\* not of the State kept between calls: every use of it starts by clearing it
\* (read_subpacket, write_zfile) or by overwriting the octets it then reads
\* (write_zdata), so what a call leaves in it is never read.
State_new ==
  [stage |-> Waiting, count |-> 0, file_name |-> <<>>, file_size |-> 0]

\* State::new_file(file_name, file_size)
State_new_file(file_name, file_size) ==
  [stage |-> Waiting, count |-> 0, file_name |-> file_name, file_size |-> file_size]

\* the world of a call: the borrowed port, file and State
World(state, inp, wcap, blocking, file, fpos) ==
  [inp |-> inp, pos |-> 0, out |-> <<>>, wcap |-> wcap, blocking |-> blocking,
   rfail |-> FALSE, wfail |-> FALSE, aligned |-> FALSE, hdr |-> NoHeader, log |-> <<>>,
   stage |-> state.stage, count |-> state.count, file_name |-> state.file_name,
   file_size |-> state.file_size, buf |-> <<>>,
   file |-> file, fpos |-> fpos]

\* the State a call leaves behind
StateOf(w) ==
  [stage |-> w.stage, count |-> w.count, file_name |-> w.file_name,
   file_size |-> w.file_size]

(***************************************************************************)
(* Bounds of the model.                                                    *)
(***************************************************************************)
\* the longest source file (more than one burst of SUBPACKET_PER_ACK reads)
MaxFileLen == 20

\* the peer of an open receive session stops adding frames at this count
MaxCount == 3

\* the largest offset the peer of an open session names in a header
MaxOffset == 2

\* the octets of the files: plain ones and ones the escape table rewrites
FilePattern == <<97, 24, 13, 255, 107, 0, 141, 98>>

FileByte(i) == FilePattern[((i - 1) % Len(FilePattern)) + 1]

FileOfLen(n) == [i \in 1..n |-> FileByte(i)]

\* the name of the file, "f"
FileName == <<102>>

\* what the transport accepts in a call before its write side fails: no
\* limit, nothing, one octet, one ZHEX header
WriteLimits == {-1, 0, 1, Len(HeaderBytes(ZRINIT_HEADER))}

(***************************************************************************)
(* What the peer of an open session may put on the transport: well-formed  *)
(* frames with their subpackets, damaged ones, cut ones, and noise.        *)
(***************************************************************************)
PeerHeader(encoding, frame, count) ==
  HeaderBytes(Header_new(encoding, frame, to_le_bytes(count)))

\* subs: a sequence of <<kind, payload>>
PeerSubpackets(encoding, subs) ==
  Flatten([i \in 1..Len(subs) |-> SubpacketBytes(encoding, subs[i][1], subs[i][2])])

\* the last octet (a CRC octet) with its low bit flipped
BadCrc(bytes) ==
  Take(bytes, Len(bytes) - 1)
  \o <<IF bytes[Len(bytes)] % 2 = 0 THEN bytes[Len(bytes)] + 1 ELSE bytes[Len(bytes)] - 1>>

CutLast(bytes) == Take(bytes, Len(bytes) - 1)

PeerData(c, n) == [i \in 1..n |-> FileByte(c + i)]

PeerNoise ==
  { <<XON>>,
    <<ZPAD>>,
    <<ZPAD, ZDLE, 68>>,
    Take(PeerHeader(ZBIN32, ZFIN, 0), 5),
    BadCrc(PeerHeader(ZBIN32, ZFIN, 0)),
    BadCrc(PeerHeader(ZBIN, ZRINIT, 0)),
    <<ZPAD, ZPAD, ZDLE, ZHEX>> \o <<48, 56>> \o [i \in 1..12 |-> 120],
    <<ZPAD, ZDLE, ZBIN>> \o <<20, 0, 0, 0, 0>> \o Crc16Bytes(<<20, 0, 0, 0, 0>>) }

ZfilePayloads ==
  { FileName \o <<0>> \o Decimal(2) \o <<0>>,
    FileName,
    FileName \o <<0, 32>> \o Decimal(3) \o <<32, 0>>,
    FileName \o <<0, 120, 0>>,
    <<255>> }

PeerZfile ==
  LET h == PeerHeader(ZBIN32, ZFILE, 0)
      good == FileName \o <<0>> \o Decimal(2) \o <<0>>
  IN { h \o SubpacketBytes(ZBIN32, ZCRCW, p) : p \in ZfilePayloads }
     \cup { h \o BadCrc(SubpacketBytes(ZBIN32, ZCRCW, good)),
            h \o CutLast(SubpacketBytes(ZBIN32, ZCRCW, good)),
            h \o Take(SubpacketBytes(ZBIN32, ZCRCW, good), 2) }

\* bursts at offset c
PeerBursts(c) ==
  { <<<<ZCRCW, PeerData(c, 1)>>>>,
    <<<<ZCRCG, PeerData(c, 2)>>, <<ZCRCE, PeerData(c + 2, 1)>>>>,
    <<<<ZCRCQ, PeerData(c, 1)>>, <<ZCRCW, <<>>>>>> }

PeerZdata ==
  LET h(c) == PeerHeader(ZBIN32, ZDATA, c)
  IN UNION { { h(c) \o PeerSubpackets(ZBIN32, b) : b \in PeerBursts(c) } : c \in 0..MaxOffset }
     \cup { PeerHeader(ZBIN, ZDATA, 0) \o SubpacketBytes(ZBIN, ZCRCW, PeerData(0, 1)),
            h(0) \o BadCrc(SubpacketBytes(ZBIN32, ZCRCG, PeerData(0, 1)))
                 \o SubpacketBytes(ZBIN32, ZCRCW, PeerData(1, 1)),
            h(0) \o SubpacketBytes(ZBIN32, ZCRCG, PeerData(0, BUFFER_SIZE))
                 \o SubpacketBytes(ZBIN32, ZCRCW, PeerData(BUFFER_SIZE, 1)),
            h(0) \o CutLast(SubpacketBytes(ZBIN32, ZCRCW, PeerData(0, 1))),
            h(0) \o SubpacketBytes(ZBIN32, ZCRCG, PeerData(0, 1)) }

PeerItemsReceive ==
  PeerNoise \cup PeerZfile \cup PeerZdata
  \cup { PeerHeader(ZBIN32, ZEOF, c) : c \in 0..MaxOffset }
  \cup { PeerHeader(ZBIN32, ZFIN, 0), PeerHeader(ZHEX, ZFIN, 0),
         PeerHeader(ZHEX, ZRQINIT, 0) }

PeerItemsSend(len) ==
  PeerNoise
  \cup { PeerHeader(ZHEX, f, c) : f \in {ZRPOS, ZACK}, c \in (0..MaxOffset) \cup {len} }
  \cup { HeaderBytes(ZRINIT_HEADER), PeerHeader(ZBIN, ZRINIT, 0),
         PeerHeader(ZHEX, ZFIN, 0), PeerHeader(ZBIN32, ZFIN, 0),
         PeerHeader(ZHEX, ZNAK, 0) }

(***************************************************************************)
(* The state: the role of the run ("send" or "receive" for one session     *)
(* against an arbitrary peer, "both" for a send and a receive session      *)
(* connected to each other), the two sessions, the octets in flight to     *)
(* each, the source file and its cursor, the sink, and what the last call  *)
(* did.  sPub, rPub and rSunk say how much of the output of a call that    *)
(* waits in a blocking read has already left it.                           *)
(***************************************************************************)
VARIABLES role, snd, rcv, toSnd, toRcv, src, fpos, sink, last, sPub, rPub, rSunk

vars == <<role, snd, rcv, toSnd, toRcv, src, fpos, sink, last, sPub, rPub, rSunk>>

NoTurn ==
  [op |-> "none", ret |-> "Ok", before |-> State_new, inp |-> <<>>, used |-> 0,
   out |-> <<>>, rfail |-> FALSE, wfail |-> FALSE, aligned |-> FALSE,
   hdr |-> NoHeader, log |-> <<>>, sink0 |-> <<>>]

\* the record of a call: r is its result, before the State it started from
TurnRecord(op, before, r, sink0) ==
  [op |-> op, ret |-> r.err, before |-> before, inp |-> r.w.inp, used |-> r.w.pos,
   out |-> r.w.out, rfail |-> r.w.rfail, wfail |-> r.w.wfail, aligned |-> r.w.aligned,
   hdr |-> r.w.hdr, log |-> r.w.log, sink0 |-> sink0]

InitOpen ==
  /\ role \in {"send", "receive"}
  /\ src \in {FileOfLen(n) : n \in IF role = "send" THEN {0, 2, BUFFER_SIZE + 1, MaxFileLen} ELSE {0}}
  /\ snd = State_new_file(FileName, Len(src))
  /\ rcv = State_new
  /\ toSnd = <<>> /\ toRcv = <<>>
  /\ fpos = 0 /\ sink = <<>>
  /\ last = NoTurn
  /\ sPub = 0 /\ rPub = 0 /\ rSunk = 0

\* the peer of the send session writes a frame
PeerWritesToSend ==
  /\ role = "send"
  /\ toSnd = <<>>
  /\ \E item \in PeerItemsSend(Len(src)) : toSnd' = item
  /\ last' = NoTurn
  /\ UNCHANGED <<role, snd, rcv, toRcv, src, fpos, sink, sPub, rPub, rSunk>>

\* the peer of the receive session writes a frame
PeerWritesToReceive ==
  /\ role = "receive"
  /\ toRcv = <<>>
  /\ rcv.count < MaxCount
  /\ \E item \in PeerItemsReceive : toRcv' = item
  /\ last' = NoTurn
  /\ UNCHANGED <<role, snd, rcv, toSnd, src, fpos, sink, sPub, rPub, rSunk>>

\* one call of send on a transport whose reads fail when it is exhausted
SendTurn ==
  /\ role = "send"
  /\ \E wcap \in WriteLimits :
       \E r \in {send(World(snd, toSnd, wcap, FALSE, src, fpos))} :
          /\ snd' = StateOf(r.w)
          /\ toSnd' = Drop(toSnd, r.w.pos)
          /\ fpos' = r.w.fpos
          /\ last' = TurnRecord("send", snd, r, sink)
  /\ UNCHANGED <<role, rcv, toRcv, src, sink, sPub, rPub, rSunk>>

\* one call of receive on a transport whose reads fail when it is exhausted
ReceiveTurn ==
  /\ role = "receive"
  /\ \E wcap \in WriteLimits :
       \E r \in {receive(World(rcv, toRcv, wcap, FALSE, sink, 0))} :
          /\ rcv' = StateOf(r.w)
          /\ toRcv' = Drop(toRcv, r.w.pos)
          /\ sink' = r.w.file
          /\ last' = TurnRecord("receive", rcv, r, sink)
  /\ UNCHANGED <<role, snd, toSnd, src, fpos, sPub, rPub, rSunk>>

Next == PeerWritesToSend \/ PeerWritesToReceive \/ SendTurn \/ ReceiveTurn

Spec == InitOpen /\ [][Next]_vars

(***************************************************************************)
(* The crate's send and receive connected to each other by a lossless,     *)
(* in-order stream of octets in each direction, each called again and      *)
(* again until its stage is Done (the loop of the crate's documentation    *)
(* and of tests/lib.rs).  The reads of the transport block: a call that    *)
(* has to wait has written everything it writes before that read, and      *)
(* goes on when the peer has written more.  A step of a session is a call  *)
(* that returns, or the part of a call up to the read it waits in when     *)
(* that part writes something new.                                         *)
(***************************************************************************)
InitE2E ==
  /\ role = "both"
  /\ src \in {FileOfLen(n) : n \in 0..MaxFileLen}
  /\ snd = State_new_file(FileName, Len(src))
  /\ rcv = State_new
  /\ toSnd = <<>> /\ toRcv = <<>>
  /\ fpos = 0 /\ sink = <<>>
  /\ last = NoTurn
  /\ sPub = 0 /\ rPub = 0 /\ rSunk = 0

\* the world the call of send in progress started from
E2ESendWorld == World(snd, toSnd, -1, TRUE, src, fpos)

\* the sink as the call of receive in progress found it
E2ESinkBefore == Take(sink, Len(sink) - rSunk)

\* the world the call of receive in progress started from
E2EReceiveWorld == World(rcv, toRcv, -1, TRUE, E2ESinkBefore, 0)

E2ESendCanStep ==
  /\ role = "both"
  /\ snd.stage # Done
  /\ \E r \in {send(E2ESendWorld)} : r.err # "Block" \/ Len(r.w.out) > sPub

E2EReceiveCanStep ==
  /\ role = "both"
  /\ rcv.stage # Done
  /\ \E r \in {receive(E2EReceiveWorld)} : r.err # "Block" \/ Len(r.w.out) > rPub

E2ESend ==
  /\ E2ESendCanStep
  /\ \E r \in {send(E2ESendWorld)} :
        /\ toRcv' = toRcv \o Drop(r.w.out, sPub)
        /\ IF r.err = "Block"
             THEN /\ sPub' = Len(r.w.out)
                  /\ UNCHANGED <<snd, toSnd, fpos, last>>
             ELSE /\ sPub' = 0
                  /\ snd' = StateOf(r.w)
                  /\ toSnd' = Drop(toSnd, r.w.pos)
                  /\ fpos' = r.w.fpos
                  /\ last' = TurnRecord("send", snd, r, sink)
  /\ UNCHANGED <<role, rcv, src, sink, rPub, rSunk>>

E2EReceive ==
  /\ E2EReceiveCanStep
  /\ \E r \in {receive(E2EReceiveWorld)} :
        /\ toSnd' = toSnd \o Drop(r.w.out, rPub)
        /\ sink' = r.w.file
        /\ IF r.err = "Block"
             THEN /\ rPub' = Len(r.w.out)
                  /\ rSunk' = Len(r.w.file) - Len(E2ESinkBefore)
                  /\ UNCHANGED <<rcv, toRcv, last>>
             ELSE /\ rPub' = 0
                  /\ rSunk' = 0
                  /\ rcv' = StateOf(r.w)
                  /\ toRcv' = Drop(toRcv, r.w.pos)
                  /\ last' = TurnRecord("receive", rcv, r, E2ESinkBefore)
  /\ UNCHANGED <<role, snd, src, fpos, sPub>>

NextE2E == E2ESend \/ E2EReceive

SpecE2E == InitE2E /\ [][NextE2E]_vars

(***************************************************************************)
(* The codec on its own (role "codec"), as the unit tests of lib.rs use    *)
(* it: a writer puts octets on the wire (toRcv), one bit of them may be    *)
(* flipped on the way, and the matching reader parses them.  last records  *)
(* the call: given is what was written, flip the flipped bit, ret, val and *)
(* buf what the reader returned and left in the buffer, used how many      *)
(* octets of inp it consumed.                                              *)
(***************************************************************************)
\* the octets of the flags of the headers written
CodecFlagBytes == {0, ZDLE, 141, 255}

CodecHeaders ==
  { Header_new(e, f, <<a, b, c, d>>) :
      e \in Encodings, f \in Frames,
      a \in CodecFlagBytes, b \in CodecFlagBytes,
      c \in CodecFlagBytes, d \in CodecFlagBytes }

\* the longest of the payloads that are enumerated octet by octet
MaxPayloadLen == 2

\* plain octets, ZDLE, octets the escape table rewrites, terminator values
CodecBytes == {97, ZDLE, CR, 255, ZCRCE, ZCRCW}

SeqsUpTo(S, n) == UNION { [1..k -> S] : k \in 0..n }

\* short payloads of every content, longer ones up to the buffer's size, and
\* payloads of the buffer's size and more: the longest that fits, with one
\* to MaxPayloadLen + 1 octets of every content after it
CodecPayloads ==
  SeqsUpTo(CodecBytes, MaxPayloadLen)
  \cup { PeerData(c, n) : c \in 0..(Len(FilePattern) - 1), n \in 3..(BUFFER_SIZE - 1) }
  \cup { PeerData(0, BUFFER_SIZE - 1) \o <<b>> \o t :
           b \in CodecBytes, t \in SeqsUpTo(CodecBytes, MaxPayloadLen) }

\* a subpacket to write: [encoding, kind, data]
CodecSubpackets ==
  { [encoding |-> e, kind |-> k, data |-> p] :
      e \in {ZBIN, ZBIN32}, k \in Packets, p \in CodecPayloads }

\* the longest input handed to read_zpad
MaxPrefixLen == 4

ZpadInputs == SeqsUpTo({ZPAD, ZDLE, XON}, MaxPrefixLen)

\* the headers and subpackets whose octets are also sent with one bit flipped
FlipHeaders ==
  { Header_new(e, f, fl) :
      e \in Encodings, f \in {ZRINIT, ZDATA}, fl \in {<<0, 0, 0, 35>>, <<171, ZDLE, 0, 1>>} }

FlipSubpackets ==
  { [encoding |-> e, kind |-> k, data |-> p] :
      e \in {ZBIN, ZBIN32}, k \in {ZCRCE, ZCRCW},
      p \in {<<>>, <<97>>, <<56, ZCRCE, 97>>, PeerData(0, BUFFER_SIZE - 1)} }

NoFlip == [at |-> 0, bit |-> 0]

RECURSIVE Pow2(_)
Pow2(b) == IF b = 0 THEN 1 ELSE 2 * Pow2(b - 1)

\* octet with its bit b flipped
FlipBit(octet, b) ==
  IF (octet \div Pow2(b)) % 2 = 1 THEN octet - Pow2(b) ELSE octet + Pow2(b)

FlipAt(bytes, i, b) == [bytes EXCEPT ![i] = FlipBit(@, b)]

CodecWorld(inp) == World(State_new, inp, -1, FALSE, <<>>, 0)

CodecRecord(op, given, flip, r) ==
  [op |-> op, given |-> given, flip |-> flip, ret |-> r.err, val |-> r.val,
   buf |-> r.w.buf, inp |-> r.w.inp, used |-> r.w.pos, out |-> r.w.out]

InitCodec ==
  /\ role = "codec"
  /\ src = <<>>
  /\ snd = State_new /\ rcv = State_new
  /\ toSnd = <<>> /\ toRcv = <<>>
  /\ fpos = 0 /\ sink = <<>>
  /\ last = NoTurn
  /\ sPub = 0 /\ rPub = 0 /\ rSunk = 0

CodecKeeps == UNCHANGED <<role, snd, rcv, toSnd, src, fpos, sink, sPub, rPub, rSunk>>

\* Header::write of a header
CodecWriteHeader ==
  /\ role = "codec" /\ last.op = "none"
  /\ \E h \in CodecHeaders \cup FlipHeaders :
       \E r \in {Header_write(CodecWorld(<<>>), h)} :
          /\ toRcv' = r.w.out
          /\ last' = CodecRecord("Header::write", h, NoFlip, r)
  /\ CodecKeeps

\* write_subpacket of a payload
CodecWriteSubpacket ==
  /\ role = "codec" /\ last.op = "none"
  /\ \E s \in CodecSubpackets \cup FlipSubpackets :
       \E r \in {write_subpacket(CodecWorld(<<>>), s.encoding, s.kind, s.data)} :
          /\ toRcv' = r.w.out
          /\ last' = CodecRecord("write_subpacket", s, NoFlip, r)
  /\ CodecKeeps

\* write_byte_escaped of an octet
CodecWriteByte ==
  /\ role = "codec" /\ last.op = "none"
  /\ \E b \in Byte :
       \E r \in {write_byte_escaped(CodecWorld(<<>>), b)} :
          /\ toRcv' = r.w.out
          /\ last' = CodecRecord("write_byte_escaped", b, NoFlip, r)
  /\ CodecKeeps

\* octets of a peer, for read_zpad
CodecPeerWrites ==
  /\ role = "codec" /\ last.op = "none"
  /\ \E bytes \in ZpadInputs :
       /\ toRcv' = bytes
       /\ last' = CodecRecord("peer", bytes, NoFlip, Ok(CodecWorld(<<>>), 0))
  /\ CodecKeeps

\* the octets of the header that Header::read parses: after ZPAD [ZPAD] ZDLE
HeaderBodyFrom(h) == IF h.encoding = ZHEX THEN 4 ELSE 3

\* the parse of a header off the wire: read_zpad, then Header::read
ReadHeaderOff(bytes) ==
  Bind([z \in {read_zpad(CodecWorld(bytes))} |->
    IF z.err # "Ok" THEN z ELSE Header_read(z.w)])

\* one bit of a written header (where Header::read reads) or subpacket flips
CodecFlipBit ==
  /\ role = "codec"
  /\ \/ /\ last.op = "Header::write" /\ last.flip = NoFlip
        /\ last.given \in FlipHeaders
        /\ \E r \in {ReadHeaderOff(toRcv)} :
             \E i \in HeaderBodyFrom(last.given)..r.w.pos, b \in 0..7 :
                /\ toRcv' = FlipAt(toRcv, i, b)
                /\ last' = [last EXCEPT !.flip = [at |-> i, bit |-> b]]
     \/ /\ last.op = "write_subpacket" /\ last.flip = NoFlip
        /\ last.given \in FlipSubpackets
        /\ \E i \in 1..Len(toRcv), b \in 0..7 :
             /\ toRcv' = FlipAt(toRcv, i, b)
             /\ last' = [last EXCEPT !.flip = [at |-> i, bit |-> b]]
  /\ CodecKeeps

\* read_zpad and Header::read of what is on the wire
CodecReadHeader ==
  /\ role = "codec" /\ last.op = "Header::write"
  /\ \E r \in {ReadHeaderOff(toRcv)} :
       /\ toRcv' = Drop(toRcv, r.w.pos)
       /\ last' = CodecRecord("Header::read", last.given, last.flip, r)
  /\ CodecKeeps

\* read_subpacket of what is on the wire
CodecReadSubpacket ==
  /\ role = "codec" /\ last.op = "write_subpacket"
  /\ \E r \in {read_subpacket(CodecWorld(toRcv), last.given.encoding)} :
       /\ toRcv' = Drop(toRcv, r.w.pos)
       /\ last' = CodecRecord("read_subpacket", last.given, last.flip, r)
  /\ CodecKeeps

\* read_byte_unescaped of what is on the wire
CodecReadByte ==
  /\ role = "codec" /\ last.op = "write_byte_escaped"
  /\ \E r \in {read_byte_unescaped(CodecWorld(toRcv))} :
       /\ toRcv' = Drop(toRcv, r.w.pos)
       /\ last' = CodecRecord("read_byte_unescaped", last.given, last.flip, r)
  /\ CodecKeeps

\* read_zpad of what is on the wire
CodecReadZpad ==
  /\ role = "codec" /\ last.op = "peer"
  /\ \E r \in {read_zpad(CodecWorld(toRcv))} :
       /\ toRcv' = Drop(toRcv, r.w.pos)
       /\ last' = CodecRecord("read_zpad", last.given, last.flip, r)
  /\ CodecKeeps

NextCodec ==
  \/ CodecWriteHeader \/ CodecWriteSubpacket \/ CodecWriteByte \/ CodecPeerWrites
  \/ CodecFlipBit
  \/ CodecReadHeader \/ CodecReadSubpacket \/ CodecReadByte \/ CodecReadZpad

SpecCodec == InitCodec /\ [][NextCodec]_vars

(***************************************************************************)
(* The ZFILE frame from send to receive (role "zfile"): a send session     *)
(* for a file name and size answers ZRINIT, and a receive session, new or  *)
(* in Ready with the name and size of an earlier ZFILE, is called on what  *)
(* send wrote until it has read it all.                                    *)
(***************************************************************************)
\* the longest file name (name, size and two NULs fit the scaled buffer)
MaxNameLen == 2

\* names: plain octets, a space, octets that are escaped, a terminator value,
\* and a character of two octets (U+00CD)
ZfileNames == SeqsUpTo({102, 32, 127, ZDLE, ZCRCE}, MaxNameLen) \cup {<<195, 141>>}

ZfileSizes == {0, 7, 42, 999}

InitZfile ==
  /\ role = "zfile"
  /\ src = <<>>
  /\ snd \in {State_new_file(n, z) : n \in ZfileNames, z \in ZfileSizes}
  /\ rcv \in {State_new,
              [stage |-> Ready, count |-> 0, file_name |-> <<120>>, file_size |-> 5]}
  /\ toSnd = HeaderBytes(ZRINIT_HEADER) /\ toRcv = <<>>
  /\ fpos = 0 /\ sink = <<>>
  /\ last = NoTurn
  /\ sPub = 0 /\ rPub = 0 /\ rSunk = 0

\* send reads the ZRINIT of its peer
ZfileSend ==
  /\ role = "zfile" /\ toSnd # <<>>
  /\ \E r \in {send(World(snd, toSnd, -1, FALSE, src, fpos))} :
       /\ snd' = StateOf(r.w)
       /\ toSnd' = Drop(toSnd, r.w.pos)
       /\ toRcv' = toRcv \o r.w.out
       /\ fpos' = r.w.fpos
       /\ last' = TurnRecord("send", snd, r, sink)
  /\ UNCHANGED <<role, rcv, src, sink, sPub, rPub, rSunk>>

\* receive is called on what send wrote
ZfileReceive ==
  /\ role = "zfile" /\ toRcv # <<>>
  /\ \E r \in {receive(World(rcv, toRcv, -1, FALSE, sink, 0))} :
       /\ rcv' = StateOf(r.w)
       /\ toRcv' = Drop(toRcv, r.w.pos)
       /\ sink' = r.w.file
       /\ last' = TurnRecord("receive", rcv, r, sink)
  /\ UNCHANGED <<role, snd, toSnd, src, fpos, sPub, rPub, rSunk>>

NextZfile == ZfileSend \/ ZfileReceive

SpecZfile == InitZfile /\ [][NextZfile]_vars

(***************************************************************************)
(* A send and a receive session of this crate connected by a transport     *)
(* that keeps the order of the octets and may damage one octet inside the  *)
(* subpackets of the first burst (role "noisy").  Each call runs on what   *)
(* the other side has written so far.                                      *)
(***************************************************************************)
InitNoisy ==
  /\ role = "noisy"
  /\ src \in {FileOfLen(BUFFER_SIZE + 1), FileOfLen(MaxFileLen)}
  /\ snd = State_new_file(FileName, Len(src))
  /\ rcv = State_new
  /\ toSnd = <<>> /\ toRcv = <<>>
  /\ fpos = 0 /\ sink = <<>>
  /\ last = NoTurn
  /\ sPub = 0 /\ rPub = 0 /\ rSunk = 0

\* one call of send: the first one, or one on what receive wrote
NoisySend ==
  /\ role = "noisy"
  /\ toSnd # <<>> \/ last.op = "none"
  /\ toRcv = <<>>
  /\ \E r \in {send(World(snd, toSnd, -1, FALSE, src, fpos))} :
       /\ snd' = StateOf(r.w)
       /\ toSnd' = Drop(toSnd, r.w.pos)
       /\ toRcv' = r.w.out
       /\ fpos' = r.w.fpos
       /\ last' = TurnRecord("send", snd, r, sink)
  /\ UNCHANGED <<role, rcv, src, sink, sPub, rPub, rSunk>>

\* the transport damages one octet of the first burst, which send has just
\* written, in a subpacket: an octet 'a' arrives as 'b'
NoisyCorrupt ==
  /\ role = "noisy"
  /\ rcv.count = 0
  /\ last.op = "send" /\ last.hdr # NoHeader /\ last.hdr.frame \in {ZRPOS, ZACK} /\ toRcv = last.out
  /\ \E i \in (Len(HeaderBytes(ZDATA_HEADER)) + 1)..Len(toRcv) :
       /\ toRcv[i] = 97
       /\ toRcv' = [toRcv EXCEPT ![i] = 98]
  /\ UNCHANGED <<role, snd, rcv, toSnd, src, fpos, sink, last, sPub, rPub, rSunk>>

\* one call of receive on what send wrote
NoisyReceive ==
  /\ role = "noisy"
  /\ toRcv # <<>>
  /\ \E r \in {receive(World(rcv, toRcv, -1, FALSE, sink, 0))} :
       /\ rcv' = StateOf(r.w)
       /\ toRcv' = Drop(toRcv, r.w.pos)
       /\ toSnd' = toSnd \o r.w.out
       /\ sink' = r.w.file
       /\ last' = TurnRecord("receive", rcv, r, sink)
  /\ UNCHANGED <<role, snd, src, fpos, sPub, rPub, rSunk>>

NextNoisy == NoisySend \/ NoisyCorrupt \/ NoisyReceive

SpecNoisy == InitNoisy /\ [][NextNoisy]_vars

(***************************************************************************)
(* Properties.  last is the record of the last call of send or receive     *)
(* (op is "none" before the first call and after the peer wrote): before   *)
(* is the State the call found, After the State it left, inp the octets    *)
(* the transport held, out the octets the call wrote, ret what it          *)
(* returned, rfail and wfail whether a read or a write of the transport    *)
(* failed, aligned whether read_zpad succeeded, hdr what Header::read       *)
(* returned (NoHeader if none), sink0 the sink before the call.            *)
(***************************************************************************)
After == IF last.op = "send" THEN snd ELSE rcv

Called == last.op # "none"

ReadHeader(frame) == Called /\ last.hdr # NoHeader /\ last.hdr.frame = frame

\* the header after a successful alignment did not parse
BadHeader == Called /\ last.aligned /\ last.hdr = NoHeader

\* bytes is a prefix of the octets of h, cut short by a failing write
CutHeader(bytes, h) ==
  /\ Len(bytes) < Len(HeaderBytes(h))
  /\ bytes = Take(HeaderBytes(h), Len(bytes))

\* C1, as the specification states it: once the stage is Done, every call of
\* send or receive returns Ok(()), leaves stage, count, file_name and
\* file_size as they were and writes nothing to the transport or the file.
C1_DoneIsNoOp ==
  (Called /\ last.before.stage = Done) =>
    /\ last.ret = "Ok"
    /\ After = last.before
    /\ last.out = <<>>
    /\ sink = last.sink0

\* C1, as the code has it: once the stage is Done, every call of send or
\* receive leaves stage, count, file_name and file_size as they were and
\* writes nothing to the file; it writes nothing to the transport and returns
\* Ok(()), unless the octets after a successful alignment are no valid header:
\* then it writes one ZNAK header and returns Ok(()), or returns Err(Write)
\* if that write fails.
C1_DoneAbsorbing ==
  (Called /\ last.before.stage = Done) =>
    /\ After = last.before
    /\ sink = last.sink0
    /\ IF BadHeader
         THEN \/ last.ret = "Ok" /\ ~last.wfail /\ last.out = HeaderBytes(ZNAK_HEADER)
              \/ last.ret = "Write" /\ last.wfail /\ CutHeader(last.out, ZNAK_HEADER)
         ELSE last.ret = "Ok" /\ last.out = <<>>

\* a call in Done that answered a bad header with a ZNAK
C1_Witness ==
  /\ Called /\ last.before.stage = Done /\ BadHeader
  /\ last.ret = "Ok" /\ last.out = HeaderBytes(ZNAK_HEADER)

(***************************************************************************)
(* Two connected sessions: both are through when both stages are Done, the *)
(* receive session's count is the length of the file and the sink holds    *)
(* the file's octets.  A connected run that can take no step stays where   *)
(* it is for ever: each session waits in a read for octets that the other, *)
(* waiting itself, never writes.                                           *)
(***************************************************************************)
BothDone ==
  /\ snd.stage = Done
  /\ rcv.stage = Done
  /\ rcv.count = Len(src)
  /\ sink = src

\* C2: send and receive, connected by a lossless in-order stream in each
\* direction and each called until its stage is Done, both get to Done for a
\* file of any length, with count the file's length and the sink holding the
\* file: the run never comes to a stop before that.
C2_BothTerminate ==
  role = "both" => (BothDone \/ E2ESendCanStep \/ E2EReceiveCanStep)

\* C3: in a receive session state.count is at most state.file_size at every
\* turn boundary, whatever the peer sends.
C3_CountWithinFileSize == role = "receive" => rcv.count <= rcv.file_size

\* C4: a receive turn never makes state.count smaller.
C4_CountMonotone ==
  (Called /\ last.op = "receive") => rcv.count >= last.before.count

\* a successful receive turn that raised a count that was already positive
C4_Witness ==
  /\ Called /\ last.op = "receive" /\ last.ret = "Ok"
  /\ last.before.count > 0
  /\ rcv.count > last.before.count

\* C5: in a receive session, at every turn boundary state.count is the number
\* of octets written to the sink so far (the sink starts empty and its writes
\* succeed).
C5_CountIsSinkLength == role = "receive" => rcv.count = Len(sink)

\* a receive turn that wrote the payloads of two subpackets to the sink
C5_Witness ==
  /\ Called /\ last.op = "receive"
  /\ Cardinality({i \in 1..Len(last.log) : last.log[i].ev = "file_out" /\ last.log[i].len > 0}) >= 2
  /\ rcv.count = MaxCount
  /\ Len(sink) = MaxCount

\* C6: after a send turn that handles a ZRPOS or ZACK header carrying offset
\* o in stage Ready or InProgress, state.count is o.
C6_SendCountIsOffset ==
  ( /\ last.op = "send" /\ last.ret = "Ok"
    /\ (ReadHeader(ZRPOS) \/ ReadHeader(ZACK))
    /\ last.before.stage \in {Ready, InProgress} )
  => snd.count = Header_count(last.hdr)

\* C7: a call in which a read of the transport failed returns Err(Read).
C7_ReadFailureReturnsRead == (Called /\ last.rfail) => last.ret = "Read"

\* C8: a call in which a write to the transport failed returns Err(Write).
C8_WriteFailureReturnsWrite == (Called /\ last.wfail) => last.ret = "Write"

\* C9: the stage becomes Done only in a call that reads a ZFIN header in
\* stage InProgress, and such a call, if its writes succeed, makes the stage
\* Done; in it send writes exactly the two octets 'O' 'O' and receive exactly
\* one ZFIN header.  A ZFIN read in Ready or Done changes and writes nothing.
\* A ZFIN read by send in Waiting changes nothing and is answered by one
\* ZRQINIT header, after the ZRQINIT that every call in Waiting starts with.
C9_DoneOnlyByZfin ==
  /\ (Called /\ After.stage = Done /\ last.before.stage # Done) =>
       /\ ReadHeader(ZFIN)
       /\ last.before.stage = InProgress
  /\ (ReadHeader(ZFIN) /\ last.before.stage = InProgress /\ last.ret = "Ok") =>
       /\ After = [last.before EXCEPT !.stage = Done]
       /\ sink = last.sink0
       /\ last.op = "send" => last.out = <<79, 79>>
       /\ last.op = "receive" => last.out = HeaderBytes(ZFIN_HEADER)
  /\ (ReadHeader(ZFIN) /\ last.before.stage = InProgress /\ last.ret # "Ok") =>
       /\ After = last.before
       /\ last.ret = "Write"
  /\ (ReadHeader(ZFIN) /\ last.before.stage \in {Ready, Done}) =>
       /\ last.ret = "Ok"
       /\ After = last.before
       /\ last.out = <<>>
       /\ sink = last.sink0
  /\ (ReadHeader(ZFIN) /\ last.op = "send" /\ last.before.stage = Waiting
        /\ last.ret = "Ok") =>
       /\ After = last.before
       /\ last.out = HeaderBytes(ZRQINIT_HEADER) \o HeaderBytes(ZRQINIT_HEADER)

\* a send call that read ZFIN in InProgress and finished the session
C9_Witness ==
  /\ ReadHeader(ZFIN) /\ last.op = "send"
  /\ last.before.stage = InProgress
  /\ snd.stage = Done
  /\ last.out = <<79, 79>>

\* what a reader makes of octets: the header of read_zpad and Header::read,
\* then the subpacket of read_subpacket, then the octets left over
ParsedFrame(bytes) ==
  Bind([z \in {read_zpad(World(State_new, bytes, -1, FALSE, <<>>, 0))} |->
    IF z.err # "Ok" THEN [ok |-> FALSE]
    ELSE Bind([h \in {Header_read(z.w)} |->
      IF h.err # "Ok" THEN [ok |-> FALSE]
      ELSE Bind([p \in {read_subpacket(h.w, h.val.encoding)} |->
        IF p.err # "Ok" THEN [ok |-> FALSE]
        ELSE [ok |-> TRUE, header |-> h.val, kind |-> p.val,
              payload |-> p.w.buf, rest |-> Drop(bytes, p.w.pos)]])])])

\* digits is n in ASCII decimal: digits only, no leading zero, value n
IsDecimalOf(digits, n) ==
  /\ digits # <<>>
  /\ \A i \in 1..Len(digits) : digits[i] \in 48..57
  /\ Len(digits) > 1 => digits[1] # 48
  /\ DigitsValue(digits) = n

\* bytes is one ZFILE header in ZBIN32 and one ZCRCW subpacket with the
\* payload name NUL size NUL, and nothing else
IsZfileFrame(bytes, name, size) ==
  \E f \in {ParsedFrame(bytes)} :
    /\ f.ok
    /\ f.header = [encoding |-> ZBIN32, frame |-> ZFILE, flags |-> <<0, 0, 0, 0>>]
    /\ f.kind = ZCRCW
    /\ f.rest = <<>>
    /\ \E digits \in {SubSeq(f.payload, Len(name) + 2, Len(f.payload) - 1)} :
         /\ f.payload = name \o <<0>> \o digits \o <<0>>
         /\ IsDecimalOf(digits, size)

\* C10: a send call that reads a ZRINIT header in Waiting and whose writes
\* succeed writes, after the ZRQINIT that every call in Waiting starts with,
\* one ZFILE header in ZBIN32 and exactly one ZCRCW subpacket with the payload
\* file name, NUL, file size in ASCII decimal, NUL, and makes the stage Ready;
\* one that reads ZRINIT in InProgress writes one ZFIN header and leaves the
\* State as it was; one that reads ZRINIT in Ready or Done writes nothing and
\* changes nothing.
C10_ZrinitReply ==
  /\ (ReadHeader(ZRINIT) /\ last.op = "send" /\ last.before.stage = Waiting
        /\ last.ret = "Ok") =>
       /\ snd = [last.before EXCEPT !.stage = Ready]
       /\ Take(last.out, Len(HeaderBytes(ZRQINIT_HEADER))) = HeaderBytes(ZRQINIT_HEADER)
       /\ IsZfileFrame(Drop(last.out, Len(HeaderBytes(ZRQINIT_HEADER))),
                       last.before.file_name, last.before.file_size)
  /\ (ReadHeader(ZRINIT) /\ last.op = "send" /\ last.before.stage = InProgress
        /\ last.ret = "Ok") =>
       /\ snd = last.before
       /\ last.out = HeaderBytes(ZFIN_HEADER)
  /\ (ReadHeader(ZRINIT) /\ last.op = "send" /\ last.before.stage \in {Ready, Done}) =>
       /\ last.ret = "Ok"
       /\ snd = last.before
       /\ last.out = <<>>

\* a send call that answered ZRINIT in Waiting with the ZFILE frame of a file
\* whose size has two digits
C10_Witness ==
  /\ ReadHeader(ZRINIT) /\ last.op = "send"
  /\ last.before.stage = Waiting
  /\ last.before.file_size = MaxFileLen
  /\ last.ret = "Ok"
  /\ snd.stage = Ready

\* a receive call that read a ZDATA header in stage Ready or InProgress
ZdataTurn ==
  /\ role = "receive" /\ last.op = "receive" /\ ReadHeader(ZDATA)
  /\ last.before.stage \in {Ready, InProgress}

\* ... whose count differs from state.count
ZdataMismatch == ZdataTurn /\ from_le_bytes(last.hdr.flags) # last.before.count

\* C17, as stated: after every successful receive call that handles a ZDATA
\* header in stage Ready or InProgress the stage is InProgress, whether the
\* count of the header matched state.count or not.
C17_ZdataMakesInProgress ==
  (ZdataTurn /\ last.ret = "Ok") => rcv.stage = InProgress

\* C17, amended: after a successful receive call that handles a ZDATA header
\* in stage Ready or InProgress, the stage is InProgress when the count of
\* the header matched state.count, and is the stage the call started in when
\* it did not.
C17_ZdataStage ==
  (ZdataTurn /\ last.ret = "Ok")
  => rcv.stage = (IF ZdataMismatch THEN last.before.stage ELSE InProgress)

\* a session in Ready answered a ZDATA header of another offset with ZRPOS
\* and is still in Ready
C17_Witness ==
  /\ ZdataMismatch /\ last.ret = "Ok"
  /\ last.before.stage = Ready /\ rcv.stage = Ready
  /\ last.out # <<>>

\* the ZRPOS header that carries count
ZrposOf(count) == Header_new(ZHEX, ZRPOS, to_le_bytes(count))

\* C18: a receive call that reads, in stage Ready or InProgress, a ZDATA
\* header whose count differs from state.count reads no subpacket, writes
\* nothing to the sink and leaves the State (count and stage included) as it
\* was; when the transport takes what it writes, it writes exactly one ZRPOS
\* header carrying state.count and returns Ok(()); when the write fails it
\* returns Err(Write) with the ZRPOS header cut short.
C18_MismatchAnsweredByZrpos ==
  ZdataMismatch =>
    /\ rcv = last.before
    /\ sink = last.sink0
    /\ \A i \in 1..Len(last.log) : last.log[i].ev = "hdr_out"
    /\ \/ /\ last.ret = "Ok" /\ ~last.wfail
          /\ last.out = HeaderBytes(ZrposOf(last.before.count))
       \/ /\ last.ret = "Write" /\ last.wfail
          /\ CutHeader(last.out, ZrposOf(last.before.count))

\* a session in InProgress that has taken octets answered a ZDATA header of
\* offset 0, with subpackets behind it, by a ZRPOS carrying its count; the
\* subpackets are still on the transport
C18_Witness ==
  /\ ZdataMismatch /\ last.ret = "Ok"
  /\ last.before.stage = InProgress
  /\ last.before.count > 0
  /\ from_le_bytes(last.hdr.flags) = 0
  /\ last.used < Len(last.inp)
  /\ last.out = HeaderBytes(ZrposOf(last.before.count))
  /\ sink = last.sink0 /\ sink # <<>>

\* a receive call that entered the data loop
DataLoopTurn == ZdataTurn /\ ~ZdataMismatch

\* the i-th entry of the log of the last call is a subpacket that was read
\* successfully, with a payload that is not empty
SubIn(i) == last.log[i].ev = "sub_in" /\ last.log[i].len > 0

\* state.count after the subpacket of entry i
CountAfter(i) == last.log[i].count + last.log[i].len

\* entry j is a ZACK header carrying count
IsZackEntry(j, count) ==
  /\ j <= Len(last.log)
  /\ last.log[j].ev = "hdr_out"
  /\ last.log[j].frame = ZACK
  /\ last.log[j].count = to_le_bytes(count)

\* the last entry that belongs to the subpacket of entry i: its ZACK, or the
\* write of its payload
LastEntryOf(i) == IF IsZackEntry(i + 2, CountAfter(i)) THEN i + 2 ELSE i + 1

\* the data loop went on after entry n: it read a subpacket, at count
LoopWentOn(n, count) ==
  \/ /\ n < Len(last.log)
     /\ last.log[n + 1].ev \in {"sub_in", "sub_bad"}
     /\ last.log[n + 1].count = count
  \/ /\ n = Len(last.log)
     /\ last.ret = "Read"
     /\ rcv.count = count

\* the data loop, and the call, ended after entry n
LoopEnded(n, count) ==
  /\ n = Len(last.log)
  /\ last.ret = "Ok"
  /\ rcv.count = count

\* the write of the ZACK of the subpacket of entry i failed
ZackFailed(i) ==
  /\ i + 1 = Len(last.log)
  /\ last.ret = "Write" /\ last.wfail
  /\ rcv.count = CountAfter(i)

\* C19: in the receive data loop, each subpacket read successfully with a
\* payload that is not empty is written to the sink and advances state.count
\* by its length; then a ZACK carrying the new state.count is written if and
\* only if its terminator is ZCRCQ or ZCRCW, and the loop and the call end
\* if and only if its terminator is ZCRCW or ZCRCE (a ZACK whose write fails
\* ends the call with Err(Write)).  The sink grows by as many octets as
\* state.count.
C19_DataLoopSteps ==
  DataLoopTurn =>
    /\ Len(sink) - Len(last.sink0) = rcv.count - last.before.count
    /\ Take(sink, Len(last.sink0)) = last.sink0
    /\ \A i \in 1..Len(last.log) :
         SubIn(i) =>
           /\ i + 1 <= Len(last.log)
           /\ last.log[i + 1].ev = "file_out"
           /\ last.log[i + 1].len = last.log[i].len
           /\ IF last.log[i].kind \in {ZCRCQ, ZCRCW}
                THEN IsZackEntry(i + 2, CountAfter(i)) \/ ZackFailed(i)
                ELSE ~(i + 2 <= Len(last.log) /\ last.log[i + 2].ev = "hdr_out")
           /\ ~ZackFailed(i) =>
                IF last.log[i].kind \in {ZCRCW, ZCRCE}
                  THEN LoopEnded(LastEntryOf(i), CountAfter(i))
                  ELSE LoopWentOn(LastEntryOf(i), CountAfter(i))

\* a data loop that took a ZCRCG subpacket of two octets without a ZACK and
\* then a ZCRCE subpacket of one octet, and ended there
C19_Witness ==
  /\ DataLoopTurn /\ last.ret = "Ok"
  /\ Len(last.log) = 4
  /\ SubIn(1) /\ last.log[1].kind = ZCRCG /\ last.log[1].len = 2
  /\ SubIn(3) /\ last.log[3].kind = ZCRCE /\ last.log[3].len = 1
  /\ rcv.count = last.before.count + 3
  /\ Len(sink) = Len(last.sink0) + 3

\* a data loop that answered a ZCRCQ subpacket with a ZACK and went on
C19_WitnessZcrcq ==
  /\ DataLoopTurn
  /\ Len(last.log) >= 4
  /\ SubIn(1) /\ last.log[1].kind = ZCRCQ
  /\ IsZackEntry(3, CountAfter(1))
  /\ last.log[4].ev = "sub_in"

\* the i-th entry of the log of the last call is a subpacket that was
\* returned with an empty payload
SubInEmpty(i) == last.log[i].ev = "sub_in" /\ last.log[i].len = 0

\* entry j is a ZACK header written for the subpacket of entry i: no other
\* subpacket was read between the two
ZackFor(i, j) ==
  /\ j > i
  /\ last.log[j].ev = "hdr_out" /\ last.log[j].frame = ZACK
  /\ \A k \in (i + 1)..(j - 1) : last.log[k].ev \notin {"sub_in", "sub_bad"}

\* C20: in the receive data loop, a subpacket returned with an empty payload
\* is answered with a ZRPOS header carrying state.count (unless its write
\* fails) and with nothing else: no ZACK is written for it, whatever its
\* terminator.
C20_EmptyPayloadOnlyZrpos ==
  DataLoopTurn =>
    \A i \in 1..Len(last.log) :
      SubInEmpty(i) =>
        /\ \/ /\ i + 1 <= Len(last.log)
              /\ last.log[i + 1].ev = "hdr_out"
              /\ last.log[i + 1].frame = ZRPOS
              /\ last.log[i + 1].count = to_le_bytes(last.log[i].count)
           \/ i = Len(last.log) /\ last.ret = "Write" /\ last.wfail
        /\ \A j \in 1..Len(last.log) : ~ZackFor(i, j)

\* the i-th entry of the log of the last call is a subpacket that
\* read_subpacket rejected with Error::Data
SubBad(i) == last.log[i].ev = "sub_bad"

\* entry j is a ZNAK header carrying count
IsZnakEntry(j, count) ==
  /\ j <= Len(last.log)
  /\ last.log[j].ev = "hdr_out"
  /\ last.log[j].frame = ZNAK
  /\ last.log[j].count = to_le_bytes(count)

\* C21: when a subpacket in the receive data loop fails its CRC check,
\* receive writes one ZNAK header carrying state.count, writes none of the
\* payload to the sink, leaves state.count as it was and goes on, in the
\* same call, to read the next subpacket (the call ends there only when that
\* read finds the transport at its end, or with Err(Write) when the write of
\* the ZNAK fails).
C21_BadSubpacketNaked ==
  DataLoopTurn =>
    \A i \in 1..Len(last.log) :
      SubBad(i) =>
        \/ /\ IsZnakEntry(i + 1, last.log[i].count)
           /\ LoopWentOn(i + 1, last.log[i].count)
        \/ /\ i = Len(last.log)
           /\ last.ret = "Write" /\ last.wfail
           /\ rcv.count = last.log[i].count

\* a data loop whose first subpacket failed its CRC check: it wrote a ZNAK
\* carrying the count it started with, took the next subpacket and ended on
\* its ZCRCW
C21_Witness ==
  /\ DataLoopTurn /\ last.ret = "Ok"
  /\ SubBad(1)
  /\ IsZnakEntry(2, last.before.count)
  /\ Len(last.log) >= 3 /\ SubIn(3) /\ last.log[3].kind = ZCRCW
  /\ last.log[3].count = last.before.count
  /\ Len(sink) = Len(last.sink0) + last.log[3].len

\* a send call that read, in stage Ready or InProgress, a request for data
DataRequest ==
  /\ role = "send" /\ last.op = "send"
  /\ (ReadHeader(ZRPOS) \/ ReadHeader(ZACK))
  /\ last.before.stage \in {Ready, InProgress}

\* the ZBIN32 subpackets that bytes consist of, as read_subpacket reads them:
\* their terminators, and their payloads one after the other
RECURSIVE ParsedBurst(_)
ParsedBurst(bytes) ==
  IF bytes = <<>> THEN [ok |-> TRUE, kinds |-> <<>>, data |-> <<>>]
  ELSE
    Bind([p \in {read_subpacket(World(State_new, bytes, -1, FALSE, <<>>, 0), ZBIN32)} |->
      IF p.err # "Ok" THEN [ok |-> FALSE, kinds |-> <<>>, data |-> <<>>]
      ELSE
        Bind([t \in {ParsedBurst(Drop(bytes, p.w.pos))} |->
          [ok |-> t.ok, kinds |-> <<p.val>> \o t.kinds, data |-> p.w.buf \o t.data]])])

\* the header that opens the answer to a request for data at offset
DataHeader(frame, offset) == Header_new(ZBIN32, frame, to_le_bytes(offset))

\* C23: a send call that handles, in stage Ready or InProgress, a ZRPOS or
\* ZACK carrying offset o and whose writes succeed writes either one ZEOF
\* header carrying o and nothing else (the file has no octet at o), or one
\* ZDATA header carrying o and after it at least one and at most
\* SUBPACKET_PER_ACK subpackets, the last terminated by ZCRCW and every other
\* by ZCRCG, whose payloads one after the other are the octets of the file
\* from o on, as many as the file has up to SUBPACKET_PER_ACK payloads of
\* BUFFER_SIZE - 2 octets; the file is then read up to there.
C23_DataBurst ==
  (DataRequest /\ last.ret = "Ok") =>
    \E o \in {from_le_bytes(last.hdr.flags)} :
      IF o >= Len(src)
        THEN last.out = HeaderBytes(DataHeader(ZEOF, o))
        ELSE
          \E hl \in {Len(HeaderBytes(DataHeader(ZDATA, o)))} :
            \E b \in {ParsedBurst(Drop(last.out, hl))} :
              /\ Take(last.out, hl) = HeaderBytes(DataHeader(ZDATA, o))
              /\ b.ok
              /\ Len(b.kinds) \in 1..SUBPACKET_PER_ACK
              /\ \A i \in 1..Len(b.kinds) :
                   b.kinds[i] = (IF i = Len(b.kinds) THEN ZCRCW ELSE ZCRCG)
              /\ b.data = SubSeq(src, o + 1, o + Len(b.data))
              /\ Len(b.data) = Min(Len(src) - o, SUBPACKET_PER_ACK * (BUFFER_SIZE - 2))
              /\ fpos = o + Len(b.data)

\* a burst from offset 2 of a file of BUFFER_SIZE + 1 octets: a ZCRCG
\* subpacket of BUFFER_SIZE - 2 octets and a ZCRCW subpacket of one
C23_Witness ==
  /\ DataRequest /\ last.ret = "Ok"
  /\ Len(src) = BUFFER_SIZE + 1
  /\ from_le_bytes(last.hdr.flags) = 2
  /\ last.before.stage = InProgress
  /\ ParsedBurst(Drop(last.out, Len(HeaderBytes(DataHeader(ZDATA, 2))))).kinds
       = <<ZCRCG, ZCRCW>>
  /\ fpos = Len(src)

\* what a call writes before it reads: the ZRQINIT (send) or ZRINIT
\* (receive) of stage Waiting
EntryBytes ==
  IF last.before.stage # Waiting THEN <<>>
  ELSE IF last.op = "send" THEN HeaderBytes(ZRQINIT_HEADER)
  ELSE HeaderBytes(ZRINIT_HEADER)

\* C25: when the octets after a successful frame alignment are no valid
\* header, the send or receive call leaves stage, count, file_name and
\* file_size as they were and writes nothing to the sink; when the transport
\* takes what it writes, it writes (after the ZRQINIT or ZRINIT that every
\* call in Waiting starts with) exactly one ZNAK header, ZHEX with flags
\* zero, and returns Ok(()); when the write of the ZNAK fails it returns
\* Err(Write).
C25_BadHeaderNaked ==
  (role \in {"send", "receive"} /\ BadHeader) =>
    /\ After = last.before
    /\ sink = last.sink0
    /\ \E znak \in {HeaderBytes(Header_new(ZHEX, ZNAK, <<0, 0, 0, 0>>))} :
         \/ /\ last.ret = "Ok" /\ ~last.wfail
            /\ last.out = EntryBytes \o znak
         \/ /\ last.ret = "Write" /\ last.wfail
            /\ Len(last.out) < Len(EntryBytes \o znak)
            /\ last.out = Take(EntryBytes \o znak, Len(last.out))
            /\ Len(last.out) >= Len(EntryBytes)

\* a receive session in InProgress, octets taken, answered a header that
\* does not parse with a ZNAK and is as it was
C25_Witness ==
  /\ role = "receive" /\ BadHeader
  /\ last.before.stage = InProgress /\ last.before.count > 0
  /\ last.ret = "Ok"
  /\ last.out = HeaderBytes(Header_new(ZHEX, ZNAK, <<0, 0, 0, 0>>))
  /\ rcv = last.before

\* the place of a stage in the order Waiting, Ready, InProgress, Done
StageRank(stage) ==
  IF stage = Waiting THEN 0 ELSE IF stage = Ready THEN 1
  ELSE IF stage = InProgress THEN 2 ELSE 3

\* a stage stays, or moves to the next one
StageStep(from, to) == to = from \/ StageRank(to) = StageRank(from) + 1

\* C26: in a send and in a receive session, no step moves the stage to an
\* earlier one or further than to the next one (Ready is entered only from
\* Waiting, InProgress only from Ready, Done only from InProgress), whatever
\* the input and whether the call returns Ok or an error.
C26_StageForward ==
  [][ /\ StageStep(snd.stage, snd'.stage)
      /\ StageStep(rcv.stage, rcv'.stage) ]_vars

\* a send session that has gone through every stage: its last call took it
\* from InProgress to Done
C26_Witness ==
  /\ role = "send" /\ last.op = "send"
  /\ last.before.stage = InProgress
  /\ snd.stage = Done

\* C27: when receive runs against the send of this crate over a transport
\* that keeps the order of the octets and may damage octets inside
\* subpackets, the sink always holds a prefix of the source file.
C27_SinkIsPrefix ==
  role = "noisy" => sink = Take(src, Len(sink))

\* C28: whenever the stage of a receive session is Done, its count is the
\* file_size latched from the ZFILE frame, whatever frames the peer sent.
C28_DoneMeansComplete ==
  (role = "receive" /\ rcv.stage = Done) => rcv.count = rcv.file_size

\* C11: when receive, in Waiting or Ready, reads the ZFILE frame that send
\* wrote for State::new_file(name, size), its file_name is name and its
\* file_size is size, its stage becomes Ready, its count stays, and it writes
\* (after the ZRINIT that every call in Waiting starts with) exactly one ZRPOS
\* header with count 0.
C11_ZfileRoundTrip ==
  ( /\ role = "zfile" /\ last.op = "receive" /\ ReadHeader(ZFILE)
    /\ last.before.stage \in {Waiting, Ready} )
  => /\ last.ret = "Ok"
     /\ rcv.file_name = snd.file_name
     /\ rcv.file_size = snd.file_size
     /\ rcv.stage = Ready
     /\ rcv.count = last.before.count
     /\ sink = last.sink0
     /\ last.out = (IF last.before.stage = Waiting
                      THEN HeaderBytes(ZRINIT_HEADER) ELSE <<>>)
                   \o HeaderBytes(Header_new(ZHEX, ZRPOS, <<0, 0, 0, 0>>))

\* a receive session in Ready, with another name and size latched before,
\* that read the ZFILE frame of a name with an escaped octet and a size of
\* three digits
C11_Witness ==
  /\ role = "zfile" /\ last.op = "receive" /\ ReadHeader(ZFILE)
  /\ last.before.stage = Ready
  /\ last.before.file_name = <<120>>
  /\ rcv.file_name = <<102, 127>>
  /\ rcv.file_size = 999

(***************************************************************************)
(* Properties of the codec.                                                *)
(***************************************************************************)
\* a reader's call on octets that arrived as they were written
ReadBack(op) == role = "codec" /\ last.op = op /\ last.flip = NoFlip

\* a reader's call on octets of which one bit was flipped
ReadFlipped(op) == role = "codec" /\ last.op = op /\ last.flip # NoFlip

\* C12: for every encoding, frame type and flags, what Header::write wrote is
\* read, after read_zpad consumed ZPAD [ZPAD] ZDLE, by Header::read as a
\* header with the same encoding, frame and flags.
C12_HeaderRoundTrip ==
  ReadBack("Header::read") => last.ret = "Ok" /\ last.val = last.given

\* a ZBIN32 header with octets that are escaped on the wire, read back
C12_Witness ==
  /\ ReadBack("Header::read")
  /\ last.given.encoding = ZBIN32
  /\ last.given.flags = <<ZDLE, 255, 141, 0>>
  /\ last.val = last.given

\* C13: for ZBIN and ZBIN32, each terminator and every payload shorter than
\* BUFFER_SIZE, read_subpacket on what write_subpacket wrote returns the
\* terminator, leaves exactly the payload in the buffer and consumes all the
\* octets.
C13_SubpacketRoundTrip ==
  (ReadBack("read_subpacket") /\ Len(last.given.data) < BUFFER_SIZE) =>
    /\ last.ret = "Ok"
    /\ last.val = last.given.kind
    /\ last.buf = last.given.data
    /\ last.used = Len(last.inp)

\* the longest payload, with a ZDLE in it, read back
C13_Witness ==
  /\ ReadBack("read_subpacket")
  /\ Len(last.given.data) = BUFFER_SIZE - 1
  /\ \E i \in 1..Len(last.given.data) : last.given.data[i] = ZDLE
  /\ last.ret = "Ok"
  /\ last.buf = last.given.data

\* C22: when the payload of a subpacket has BUFFER_SIZE octets or more,
\* read_subpacket on what write_subpacket wrote does not fail: it returns
\* the terminator of the subpacket with an empty buffer and has consumed the
\* octets up to and including the CRC that follows the terminator, so that
\* the transport stands at the first octet after the subpacket.
C22_OverflowRecovery ==
  (ReadBack("read_subpacket") /\ Len(last.given.data) >= BUFFER_SIZE) =>
    /\ last.ret = "Ok"
    /\ last.val = last.given.kind
    /\ last.buf = <<>>
    /\ last.used = Len(last.inp)
    /\ toRcv = <<>>

\* a ZBIN32 subpacket whose payload goes past the buffer's size with an
\* escaped ZDLE and a terminator value, read back as its ZCRCQ and nothing
C22_Witness ==
  /\ ReadBack("read_subpacket")
  /\ last.given.encoding = ZBIN32
  /\ last.given.kind = ZCRCQ
  /\ Len(last.given.data) = BUFFER_SIZE + 2
  /\ last.given.data[BUFFER_SIZE + 1] = ZDLE
  /\ last.given.data[BUFFER_SIZE + 2] = ZCRCE
  /\ last.ret = "Ok" /\ last.val = ZCRCQ /\ last.buf = <<>>
  /\ last.used = Len(last.inp)

\* C14: for every octet b, read_byte_unescaped on the one or two octets
\* write_byte_escaped(b) wrote returns b and consumes exactly those octets.
C14_EscapeRoundTrip ==
  ReadBack("read_byte_unescaped") =>
    /\ Len(last.inp) \in {1, 2}
    /\ last.ret = "Ok"
    /\ last.val = last.given
    /\ last.used = Len(last.inp)

\* ZDLE itself, written as two octets and read back
C14_Witness ==
  /\ ReadBack("read_byte_unescaped")
  /\ last.given = ZDLE
  /\ Len(last.inp) = 2
  /\ last.val = ZDLE

\* write_byte_escaped was called on the octet b
WroteByte(b) == role = "codec" /\ last.op = "write_byte_escaped" /\ last.given = b

\* read_byte_unescaped was called on the octet that ZDLE and code stand for
ReadEscape(code) ==
  role = "codec" /\ last.op = "read_byte_unescaped" /\ last.inp = <<ZDLE, code>>

\* C24, as stated: write_byte_escaped emits 0x7f and 0xff each as one octet,
\* without ZDLE before it, while read_byte_unescaped decodes ZDLE 0x6c as
\* 0x7f and ZDLE 0x6d as 0xff.
C24_RuboutsNotEscaped ==
  /\ WroteByte(127) => last.out = <<127>>
  /\ WroteByte(255) => last.out = <<255>>
  /\ ReadEscape(108) => last.ret = "Ok" /\ last.val = 127
  /\ ReadEscape(109) => last.ret = "Ok" /\ last.val = 255

\* C24, amended: write_byte_escaped emits 0x7f as ZDLE 0x6c and 0xff as
\* ZDLE 0x6d (ZDLE_TABLE holds 0x6c at 0x7f and 0x6d at 0xff), and
\* read_byte_unescaped decodes ZDLE 0x6c as 0x7f and ZDLE 0x6d as 0xff, the
\* two octets consumed.
C24_RuboutsEscaped ==
  /\ WroteByte(127) => last.ret = "Ok" /\ last.out = <<ZDLE, 108>>
  /\ WroteByte(255) => last.ret = "Ok" /\ last.out = <<ZDLE, 109>>
  /\ ReadEscape(108) => last.ret = "Ok" /\ last.val = 127 /\ last.used = 2
  /\ ReadEscape(109) => last.ret = "Ok" /\ last.val = 255 /\ last.used = 2

\* 0xff, written as ZDLE 0x6d and read back
C24_Witness ==
  /\ ReadEscape(109)
  /\ last.given = 255
  /\ last.val = 255

ZpadAccepts(b) ==
  \/ Len(b) >= 2 /\ b[1] = ZPAD /\ b[2] = ZDLE
  \/ Len(b) >= 3 /\ b[1] = ZPAD /\ b[2] = ZPAD /\ b[3] = ZDLE

ZpadUndecided(b) == b \in {<<>>, <<ZPAD>>, <<ZPAD, ZPAD>>}

\* C16: read_zpad returns Ok exactly on inputs that begin ZPAD ZDLE or
\* ZPAD ZPAD ZDLE, and has then consumed exactly these two or three octets; it
\* returns Err(Read) exactly when the input ends before that is decided, and
\* Err(Data) on every other input.
C16_ReadZpad ==
  ReadBack("read_zpad") =>
    /\ last.ret = "Ok" <=> ZpadAccepts(last.given)
    /\ last.ret = "Ok" => last.used = (IF last.given[2] = ZDLE THEN 2 ELSE 3)
    /\ last.ret = "Read" <=> ZpadUndecided(last.given)
    /\ last.ret \in {"Ok", "Read", "Data"}

\* ZPAD ZPAD ZDLE accepted, the octet after it left on the wire
C16_Witness ==
  /\ ReadBack("read_zpad")
  /\ last.given = <<ZPAD, ZPAD, ZDLE, XON>>
  /\ last.ret = "Ok"
  /\ toRcv = <<XON>>

====
